---------------------------- MODULE Spec2Model ----------------------------
(***************************************************************************)
(* Model of dlls/kernelbase/path.c: the path canonicalization engine       *)
(* (PathAllocCanonicalize and the PathCch* wrappers) and the URL engine    *)
(* (UrlEscapeW, UrlUnescapeW, UrlCanonicalizeW).                           *)
(*                                                                         *)
(* Strings are sequences of code units (naturals); the C index i of a      *)
(* string is element i+1 of the sequence and the terminating NUL is the    *)
(* code unit read at index Len.  Scratch buffers are sequences of fixed    *)
(* length holding code units, NUL included.                                *)
(***************************************************************************)
EXTENDS Integers, Sequences, FiniteSets, TLC

VARIABLES op, arg, res, prev

vars == <<op, arg, res, prev>>

-----------------------------------------------------------------------------
(* Code units *)

NUL    == 0
SPACE  == 32
HASH   == 35
PCT    == 37
STAR   == 42
DOT    == 46
SLASH  == 47
COLON  == 58
QMARK  == 63
AT     == 64
BSLASH == 92
LBRACE == 123
RBRACE == 125
DASH   == 45
PLUS   == 43
TAB    == 9

(* Status codes, by name *)
S_OK                         == "S_OK"
S_FALSE                      == "S_FALSE"
E_INVALIDARG                 == "E_INVALIDARG"
E_POINTER                    == "E_POINTER"
E_FILENAME_EXCED_RANGE       == "ERROR_FILENAME_EXCED_RANGE"
STRSAFE_E_INSUFFICIENT_BUFFER == "STRSAFE_E_INSUFFICIENT_BUFFER"

SUCCEEDED(hr) == hr \in {S_OK, S_FALSE}
FAILED(hr)    == ~SUCCEEDED(hr)

(* A null string pointer (no code unit is negative) *)
NULL == <<-1>>

(* A null root_end *)
NoRoot == -1

MAX_PATH        == 260
PATHCCH_MAX_CCH == 32768

(* PATHCCH_* option bits, by name *)
PATHCCH_ALLOW_LONG_PATHS                == "ALLOW_LONG_PATHS"
PATHCCH_FORCE_ENABLE_LONG_NAME_PROCESS  == "FORCE_ENABLE_LONG_NAME_PROCESS"
PATHCCH_FORCE_DISABLE_LONG_NAME_PROCESS == "FORCE_DISABLE_LONG_NAME_PROCESS"
PATHCCH_DO_NOT_NORMALIZE_SEGMENTS       == "DO_NOT_NORMALIZE_SEGMENTS"
PATHCCH_ENSURE_IS_EXTENDED_LENGTH_PATH  == "ENSURE_IS_EXTENDED_LENGTH_PATH"
PATHCCH_ENSURE_TRAILING_SLASH           == "ENSURE_TRAILING_SLASH"

PathcchFlags ==
    { PATHCCH_ALLOW_LONG_PATHS, PATHCCH_FORCE_ENABLE_LONG_NAME_PROCESS,
      PATHCCH_FORCE_DISABLE_LONG_NAME_PROCESS, PATHCCH_DO_NOT_NORMALIZE_SEGMENTS,
      PATHCCH_ENSURE_IS_EXTENDED_LENGTH_PATH, PATHCCH_ENSURE_TRAILING_SLASH }

-----------------------------------------------------------------------------
(* Character classes and C string primitives *)

isdigitW(c)  == c >= 48 /\ c <= 57
isupperW(c)  == c >= 65 /\ c <= 90
islowerW(c)  == c >= 97 /\ c <= 122
isalphaW(c)  == isupperW(c) \/ islowerW(c)
isalnumW(c)  == isalphaW(c) \/ isdigitW(c)
isxdigitW(c) == isdigitW(c) \/ (c >= 65 /\ c <= 70) \/ (c >= 97 /\ c <= 102)
tolowerW(c)  == IF isupperW(c) THEN c + 32 ELSE c

(* s[i] of a NUL-terminated string: the terminator is read at index Len(s) *)
At(s, i) == IF i >= 0 /\ i < Len(s) THEN s[i + 1] ELSE NUL

(* the string starting at s + i *)
From(s, i) == IF i >= Len(s) THEN << >> ELSE SubSeq(s, i + 1, Len(s))

(* buf[i] of a scratch buffer *)
Rd(buf, i) == IF i >= 0 /\ i < Len(buf) THEN buf[i + 1] ELSE NUL

(* buf[i] = c; a store outside the allocation leaves the model buffer alone *)
Wr(buf, i, c) == IF i >= 0 /\ i < Len(buf) THEN [buf EXCEPT ![i + 1] = c] ELSE buf

InBuf(buf, i) == i >= 0 /\ i < Len(buf)

(* strlenW(buf + i): code units from index i up to the first NUL *)
strlenFrom(buf, i) ==
    LET nuls == {j \in i..(Len(buf) - 1) : buf[j + 1] = NUL} IN
    IF i >= Len(buf) THEN 0
    ELSE IF nuls = {} THEN Len(buf) - i
    ELSE (CHOOSE j \in nuls : \A k \in nuls : j <= k) - i

(* strlenW on a buffer: number of code units before the first NUL *)
strlenW(buf) == strlenFrom(buf, 0)

(* the string held by a buffer *)
Str(buf) == SubSeq(buf, 1, strlenW(buf))

Zeros(n) == [i \in 1..n |-> NUL]

(* memcpy(buf + at, s, Len(s)); stores outside the allocation are dropped *)
WrSeq(buf, at, s) ==
    [i \in 1..Len(buf) |-> IF i - 1 >= at /\ i - 1 < at + Len(s) THEN s[i - at] ELSE buf[i]]

(* !strncmpiW(string, pat, Len(pat)) for a pattern without NUL *)
HasPrefixI(s, pat) == \A i \in 1..Len(pat) : tolowerW(At(s, i - 1)) = tolowerW(pat[i])

(* !strncmpW(string, pat, Len(pat)) for a pattern without NUL *)
HasPrefix(s, pat) == \A i \in 1..Len(pat) : At(s, i - 1) = pat[i]

-----------------------------------------------------------------------------
(* Root classifier *)

prefixed_unc    == <<92, 92, 63, 92, 85, 78, 67, 92>>               \* \\?\UNC\
prefix_disk     == <<92, 92, 63, 92>>                               \* \\?\
prefixed_volume == <<92, 92, 63, 92, 86, 111, 108, 117, 109, 101>>  \* \\?\Volume

is_prefixed_unc(string) == HasPrefixI(string, prefixed_unc)

(* is_prefixed_disk without the test for the drive letter and the colon *)
is_prefixed_disk_AnyDevice(string) == HasPrefix(string, prefix_disk)

is_prefixed_disk(string) ==
    HasPrefix(string, prefix_disk) /\ isalphaW(At(string, 4)) /\ At(string, 5) = COLON

is_prefixed_volume(string) ==
    /\ HasPrefixI(string, prefixed_volume)
    /\ \A i \in 0..37 :
          LET g == At(string, Len(prefixed_volume) + i) IN
          CASE i = 0               -> g = LBRACE
            [] i \in {9, 14, 19, 24} -> g = DASH
            [] i = 37              -> g = RBRACE
            [] OTHER               -> isalnumW(g)

(* index of the last code unit of the root, NoRoot when there is no root *)
get_root_end(path) ==
    IF is_prefixed_volume(path) THEN (IF At(path, 48) = BSLASH THEN 48 ELSE 47)
    ELSE IF is_prefixed_unc(path) THEN 7
    ELSE IF is_prefixed_disk(path) THEN (IF At(path, 6) = BSLASH THEN 6 ELSE 5)
    ELSE IF At(path, 0) = BSLASH /\ At(path, 1) = BSLASH THEN 1
    ELSE IF At(path, 0) = BSLASH THEN 0
    ELSE IF isalphaW(At(path, 0)) /\ At(path, 1) = COLON
         THEN (IF At(path, 2) = BSLASH THEN 2 ELSE 1)
    ELSE NoRoot

(* index just past the segment starting at next, and whether it ended in \ *)
RECURSIVE get_next_segment(_, _)
get_next_segment(s, next) ==
    IF At(s, next) # NUL /\ At(s, next) # BSLASH THEN get_next_segment(s, next + 1)
    ELSE IF At(s, next) = BSLASH THEN [next |-> next + 1, ret |-> TRUE]
    ELSE [next |-> next, ret |-> FALSE]

-----------------------------------------------------------------------------
(* PathCchStripPrefix on a buffer holding a string; size in code units *)

PathCchStripPrefix(path, size) ==
    IF size = 0 \/ size > PATHCCH_MAX_CCH THEN [hr |-> E_INVALIDARG, path |-> path]
    ELSE IF is_prefixed_unc(Str(path)) THEN
        IF size < strlenFrom(path, 8) + 3 THEN [hr |-> E_INVALIDARG, path |-> path]
        ELSE LET tail == SubSeq(path, 9, 8 + strlenFrom(path, 8)) IN
             [hr |-> S_OK, path |-> WrSeq(path, 2, tail \o <<NUL>>)]
    ELSE IF is_prefixed_disk(Str(path)) THEN
        IF size < strlenFrom(path, 4) + 1 THEN [hr |-> E_INVALIDARG, path |-> path]
        ELSE LET tail == SubSeq(path, 5, 4 + strlenFrom(path, 4)) IN
             [hr |-> S_OK, path |-> WrSeq(path, 0, tail \o <<NUL>>)]
    ELSE [hr |-> S_FALSE, path |-> path]

(* PathCchAddBackslashEx on a buffer holding a string; size as the caller passes it *)
PathCchAddBackslashEx(path, size) ==
    LET length == strlenW(path)
        needs_termination == size # 0 /\ length # 0 /\ Rd(path, length - 1) # BSLASH
    IN  IF length >= (IF needs_termination THEN size - 1 ELSE size)
        THEN [hr |-> STRSAFE_E_INSUFFICIENT_BUFFER, path |-> path,
              oob |-> FALSE]
        ELSE IF ~needs_termination THEN [hr |-> S_FALSE, path |-> path, oob |-> FALSE]
        ELSE [hr |-> S_OK,
              path |-> Wr(Wr(path, length, BSLASH), length + 1, NUL),
              oob |-> ~InBuf(path, length + 1)]

PathCchAddBackslash(path, size) == PathCchAddBackslashEx(path, size)

-----------------------------------------------------------------------------
(* PathAllocCanonicalize *)

(* the entry check without its EnsureExtendedLengthPath/AllowLongPaths test *)
InvalidFlags_NoExtendedCheck(flags) ==
    \/ (PATHCCH_FORCE_ENABLE_LONG_NAME_PROCESS \in flags
        /\ PATHCCH_FORCE_DISABLE_LONG_NAME_PROCESS \in flags)
    \/ (flags \cap {PATHCCH_FORCE_ENABLE_LONG_NAME_PROCESS,
                    PATHCCH_FORCE_DISABLE_LONG_NAME_PROCESS} # {}
        /\ PATHCCH_ALLOW_LONG_PATHS \notin flags)

(* the flag combinations rejected at entry *)
InvalidFlags(flags) ==
    \/ (PATHCCH_FORCE_ENABLE_LONG_NAME_PROCESS \in flags
        /\ PATHCCH_FORCE_DISABLE_LONG_NAME_PROCESS \in flags)
    \/ (flags \cap {PATHCCH_FORCE_ENABLE_LONG_NAME_PROCESS,
                    PATHCCH_FORCE_DISABLE_LONG_NAME_PROCESS} # {}
        /\ PATHCCH_ALLOW_LONG_PATHS \notin flags)
    \/ (PATHCCH_ENSURE_IS_EXTENDED_LENGTH_PATH \in flags
        /\ PATHCCH_ALLOW_LONG_PATHS \in flags)

(* the length check without its PATHCCH_MAX_CCH test *)
TooLong_ShortCeilingOnly(length, flags) ==
    length + 1 > MAX_PATH
    /\ flags \cap {PATHCCH_ALLOW_LONG_PATHS, PATHCCH_ENSURE_IS_EXTENDED_LENGTH_PATH} = {}

(* the length check after the flag check *)
TooLong(length, flags) ==
    \/ (length + 1 > MAX_PATH
        /\ flags \cap {PATHCCH_ALLOW_LONG_PATHS, PATHCCH_ENSURE_IS_EXTENDED_LENGTH_PATH} = {})
    \/ length + 1 > PATHCCH_MAX_CCH

(* PATHCCH_ENSURE_IS_EXTENDED_LENGTH_PATH implies PATHCCH_DO_NOT_NORMALIZE_SEGMENTS *)
EffectiveFlags(flags) ==
    IF PATHCCH_ENSURE_IS_EXTENDED_LENGTH_PATH \in flags
    THEN flags \cup {PATHCCH_DO_NOT_NORMALIZE_SEGMENTS} ELSE flags

ScratchSize_NoRoom(length) == length + 1

(* "path length + possible \\?\ addition + possible \ addition + NUL", in code units *)
ScratchSize(length) == length + 6

(* buffer, src, dst and root_end after the root has been copied *)
CopyRoot(path_in) ==
    LET length   == Len(path_in)
        buffer   == Zeros(ScratchSize(length))
        root_end == get_root_end(path_in)
    IN  IF root_end = NoRoot
        THEN [buf |-> buffer, src |-> 0, dst |-> 0, root_end |-> NoRoot, oob |-> FALSE]
        ELSE
          LET copied == WrSeq(buffer, 0, SubSeq(path_in, 1, root_end + 1))
              strip  == PathCchStripPrefix(copied, length + 6)
          IN  IF strip.hr = S_OK
              THEN LET d == strip.path
                       filled == IF isalphaW(Rd(d, 0)) /\ Rd(d, 1) = COLON /\ Rd(d, 2) # BSLASH
                                 THEN Wr(Wr(d, 2, BSLASH), 3, NUL) ELSE d
                   IN  [buf |-> filled, src |-> root_end + 1, dst |-> strlenW(filled),
                        root_end |-> strlenW(filled), oob |-> FALSE]
              ELSE [buf |-> copied, src |-> root_end + 1, dst |-> root_end + 1,
                    root_end |-> root_end, oob |-> FALSE]

(* "Remove characters until a \ is encountered" *)
RECURSIVE WalkBack(_, _)
WalkBack(buf, dst) ==
    IF dst > 0
    THEN IF Rd(buf, dst - 1) = BSLASH
         THEN [buf |-> Wr(buf, dst - 1, NUL), dst |-> dst - 1]
         ELSE WalkBack(Wr(buf, dst - 1, NUL), dst - 1)
    ELSE [buf |-> buf, dst |-> dst]

(* "If X:\ is not complete, then complete it", after a collapsed . or .. *)
CompleteRoot(path_in, s) ==
    IF isalphaW(Rd(s.buf, 0)) /\ Rd(s.buf, 1) = COLON /\ Rd(s.buf, 2) # BSLASH
    THEN [s EXCEPT !.root_end = 2, !.dst = 3, !.buf = Wr(s.buf, 2, BSLASH),
                   !.src = IF At(path_in, s.src) = BSLASH THEN s.src + 1 ELSE s.src]
    ELSE s

(* copy n code units from src to dst, advancing both *)
RECURSIVE CopyOver(_, _, _)
CopyOver(path_in, s, n) ==
    IF n = 0 THEN s
    ELSE CopyOver(path_in,
                  [s EXCEPT !.buf = Wr(s.buf, s.dst, At(path_in, s.src)),
                            !.oob = s.oob \/ ~InBuf(s.buf, s.dst),
                            !.dst = s.dst + 1, !.src = s.src + 1],
                  n - 1)

(* the root check left out: every \ before a . or .. may be removed *)
PastRoot_Unchecked(root_end, dst) == TRUE

(* "if the \ is not part of root": dst - 1 lies beyond root_end *)
PastRoot(root_end, dst) == root_end = NoRoot \/ dst - 1 > root_end

(* one iteration of the scan loop, entered with src not at the NUL *)
CanonStep(path_in, flags, s) ==
    LET c0 == At(path_in, s.src)
        c1 == At(path_in, s.src + 1)
        c2 == At(path_in, s.src + 2)
        hasPrev  == s.dst > 0
        prevc    == Rd(s.buf, s.dst - 1)
        noNorm   == PATHCCH_DO_NOT_NORMALIZE_SEGMENTS \in flags
        pastRoot == PastRoot(s.root_end, s.dst)
    IN  IF c0 = DOT THEN
          IF c1 = DOT THEN
            IF hasPrev /\ prevc = STAR THEN CopyOver(path_in, s, 1)
            ELSE IF hasPrev /\ ((noNorm /\ prevc # BSLASH)
                                \/ (prevc # BSLASH /\ c2 # BSLASH /\ c2 # NUL))
                 THEN CopyOver(path_in, s, 2)
            ELSE IF hasPrev /\ prevc = BSLASH /\ pastRoot
                 THEN LET w == WalkBack(Wr(s.buf, s.dst - 1, NUL), s.dst - 1) IN
                      CompleteRoot(path_in,
                          [s EXCEPT !.buf = w.buf, !.dst = w.dst, !.src = s.src + 2])
            ELSE IF c2 = BSLASH
                 THEN CompleteRoot(path_in, [s EXCEPT !.src = s.src + 3])
            ELSE CompleteRoot(path_in, [s EXCEPT !.src = s.src + 2])
          ELSE
            IF hasPrev /\ ((noNorm /\ prevc # BSLASH)
                           \/ (prevc # BSLASH /\ c1 # BSLASH /\ c1 # NUL)
                           \/ prevc = STAR)
            THEN CopyOver(path_in, s, 1)
            ELSE IF hasPrev /\ prevc = BSLASH /\ pastRoot
                 THEN CompleteRoot(path_in, [s EXCEPT !.dst = s.dst - 1, !.src = s.src + 1])
            ELSE IF c1 = BSLASH
                 THEN CompleteRoot(path_in, [s EXCEPT !.src = s.src + 2])
            ELSE CompleteRoot(path_in, [s EXCEPT !.src = s.src + 1])
        ELSE CopyOver(path_in, s, 1)

(* the number of code units from src on that stand before the next . and *)
(* before the terminator: each of them takes the "Copy over" branch      *)
PlainRun(path_in, src) ==
    LET dots == {i \in src..(Len(path_in) - 1) : path_in[i + 1] = DOT} IN
    IF dots = {} THEN Len(path_in) - src
    ELSE (CHOOSE i \in dots : \A j \in dots : i <= j) - src

(* n iterations of the "Copy over" branch *)
CopyRun(path_in, s, n) ==
    [s EXCEPT !.buf = WrSeq(s.buf, s.dst, SubSeq(path_in, s.src + 1, s.src + n)),
              !.oob = s.oob \/ ~InBuf(s.buf, s.dst + n - 1),
              !.dst = s.dst + n, !.src = s.src + n]

(* the scan loop: iterate until src reaches the terminating NUL; a run of *)
(* units that are copied over one by one is taken in one turn             *)
RECURSIVE CanonLoop(_, _, _)
CanonLoop(path_in, flags, s) ==
    IF At(path_in, s.src) = NUL THEN s
    ELSE IF PlainRun(path_in, s.src) > 1
         THEN CanonLoop(path_in, flags, CopyRun(path_in, s, PlainRun(path_in, s.src)))
    ELSE CanonLoop(path_in, flags, CanonStep(path_in, flags, s))

(* "End the path", "If result path is empty, fill in \" *)
EndPath(s) ==
    LET ended == Wr(s.buf, s.dst, NUL) IN
    IF Rd(ended, 0) = NUL THEN Wr(Wr(ended, 0, BSLASH), 1, NUL) ELSE ended

(* the extension decided by the length alone *)
ExtendPath_LengthOnly(buffer, flags) ==
    IF strlenW(buffer) + 1 > MAX_PATH /\ isalphaW(Rd(buffer, 0)) /\ Rd(buffer, 1) = COLON
       /\ PATHCCH_FORCE_ENABLE_LONG_NAME_PROCESS \notin flags
    THEN WrSeq(buffer, 0, prefix_disk \o Str(buffer) \o <<NUL>>)
    ELSE buffer

(* "Extend the path if needed" *)
ExtendPath(buffer, flags) ==
    LET length == strlenW(buffer)
        drive  == isalphaW(Rd(buffer, 0)) /\ Rd(buffer, 1) = COLON
    IN  IF ((length + 1 > MAX_PATH /\ drive)
            \/ (drive /\ PATHCCH_ENSURE_IS_EXTENDED_LENGTH_PATH \in flags))
           /\ PATHCCH_FORCE_ENABLE_LONG_NAME_PROCESS \notin flags
        THEN WrSeq(buffer, 0, prefix_disk \o Str(buffer) \o <<NUL>>)
        ELSE buffer

(* "Add a trailing backslash to the path if needed"; buffer_size is in bytes *)
TrailingSlash(buffer, flags) ==
    IF PATHCCH_ENSURE_TRAILING_SLASH \in flags
    THEN PathCchAddBackslash(buffer, Len(buffer) * 2).path
    ELSE buffer

PathAllocCanonicalize(path_in, flags) ==
    IF path_in = NULL \/ InvalidFlags(flags)
    THEN [hr |-> E_INVALIDARG, path_out |-> NULL]
    ELSE IF TooLong(Len(path_in), flags)
    THEN [hr |-> E_FILENAME_EXCED_RANGE, path_out |-> NULL]
    ELSE LET f == EffectiveFlags(flags)
             s == CanonLoop(path_in, f, CopyRoot(path_in))
         IN  [hr |-> S_OK,
              path_out |-> Str(TrailingSlash(ExtendPath(EndPath(s), f), f))]

-----------------------------------------------------------------------------
(* Bounds and input sets *)

MaxLen == 5

Rep(c, n) == [i \in 1..n |-> c]

(* all strings over alphabet of length at most n *)
Strings(alphabet, n) == UNION {[1..k -> alphabet] : k \in 0..n}

(* a, . \ : * -- "a" serves as drive letter and as segment name *)
PathAlphabet == {97, DOT, BSLASH, COLON, STAR}

(* \\?\Volume{aaaaaaaa-aaaa-aaaa-aaaa-aaaaaaaaaaaa} *)
VolumeRoot ==
    prefixed_volume \o <<LBRACE>> \o Rep(97, 8) \o <<DASH>> \o Rep(97, 4) \o <<DASH>>
        \o Rep(97, 4) \o <<DASH>> \o Rep(97, 4) \o <<DASH>> \o Rep(97, 12) \o <<RBRACE>>

DevicePrefixes == {<< >>, prefix_disk, prefixed_unc, VolumeRoot}

(* \\?\UNC\server\share\..\x *)
UncSharePath ==
    prefixed_unc \o <<115, 101, 114, 118, 101, 114, 92, 115, 104, 97, 114, 101, 92, 46, 46, 92, 120>>

(* \\server\share\x *)
UncShareCanonical ==
    <<92, 92, 115, 101, 114, 118, 101, 114, 92, 115, 104, 97, 114, 101, 92, 120>>

MaxSegs == 4

(* the segments a, . and .. *)
SegmentAlphabet == {<<97>>, <<DOT>>, <<DOT, DOT>>}

(* no root, \, \\, a:, a:\ *)
RootForms == {<< >>, <<BSLASH>>, <<BSLASH, BSLASH>>, <<97, COLON>>, <<97, COLON, BSLASH>>}

RECURSIVE Joined(_)
Joined(segs) ==
    IF segs = << >> THEN << >>
    ELSE IF Len(segs) = 1 THEN segs[1]
    ELSE segs[1] \o <<BSLASH>> \o Joined(Tail(segs))

(* root + at most MaxSegs segments separated by \ *)
SegmentPaths ==
    {root \o Joined(segs) : root \in RootForms, segs \in Strings(SegmentAlphabet, MaxSegs)}

PathInputs ==
    {pre \o body : pre \in DevicePrefixes, body \in Strings(PathAlphabet, MaxLen)}
        \cup SegmentPaths \cup {UncSharePath}

(* a:\a\..\a and a. with every flag set *)
FlagPaths == {<<97, 58, 92, 97, 92, 46, 46, 92, 97>>, <<97, 46>>, NULL}

CanonInputs == (PathInputs \X {{}}) \cup (FlagPaths \X SUBSET PathcchFlags)

NoCall == [op |-> "none"]

-----------------------------------------------------------------------------
(* The caller: one call at a time, optionally followed by a second call on *)
(* the first call's result.                                                *)

Init ==
    /\ op = "idle"
    /\ arg = << >>
    /\ res = << >>
    /\ prev = NoCall

CallPathAllocCanonicalize ==
    /\ op = "idle"
    /\ \E in \in CanonInputs :
          /\ arg' = [path_in |-> in[1], flags |-> in[2]]
          /\ res' = PathAllocCanonicalize(in[1], in[2])
    /\ op' = "PathAllocCanonicalize"
    /\ prev' = NoCall

(* canonicalize the path returned by the previous call, same flags *)
CallPathAllocCanonicalizeAgain ==
    /\ op = "PathAllocCanonicalize"
    /\ prev.op = "none"
    /\ res.hr = S_OK
    /\ arg' = [path_in |-> res.path_out, flags |-> arg.flags]
    /\ res' = PathAllocCanonicalize(res.path_out, arg.flags)
    /\ prev' = [op |-> op, arg |-> arg, res |-> res]
    /\ op' = op

(* the caller releases the result *)
Return ==
    /\ op # "idle"
    /\ op' = "idle"
    /\ arg' = << >>
    /\ res' = << >>
    /\ prev' = NoCall

Next ==
    \/ CallPathAllocCanonicalize
    \/ CallPathAllocCanonicalizeAgain
    \/ Return

Spec == Init /\ [][Next]_vars

-----------------------------------------------------------------------------
(* Vocabulary of the path properties *)

(* a completed PathAllocCanonicalize call on a non-null path, default flags *)
DefaultCanonCall ==
    op = "PathAllocCanonicalize" /\ arg.path_in # NULL /\ arg.flags = {}

(* length of the classified root, 0 when there is none *)
RootLen(p) == IF get_root_end(p) = NoRoot THEN 0 ELSE get_root_end(p) + 1

RootOf(p) == SubSeq(p, 1, RootLen(p))
AfterRoot(p) == From(p, RootLen(p))

(* the device forms whose prefix the canonicalizer strips *)
StrippablePrefix(p) == is_prefixed_unc(p) \/ is_prefixed_disk(p)

DotDotSep == <<DOT, DOT, BSLASH>>

(* what remains after the leading copies of ..\ *)
RECURSIVE StripDotDots(_)
StripDotDots(rest) ==
    IF Len(rest) >= 3 /\ SubSeq(rest, 1, 3) = DotDotSep
    THEN StripDotDots(From(rest, 3)) ELSE rest

(* the segments of s, split at every \ *)
RECURSIVE SplitSegs(_)
SplitSegs(s) ==
    LET seps == {i \in 1..Len(s) : s[i] = BSLASH} IN
    IF seps = {} THEN <<s>>
    ELSE LET i == CHOOSE j \in seps : \A k \in seps : j <= k IN
         <<SubSeq(s, 1, i - 1)>> \o SplitSegs(SubSeq(s, i + 1, Len(s)))

IsName(seg) == seg # << >> /\ \A i \in 1..Len(seg) : seg[i] \notin {DOT, BSLASH}
IsDot(seg) == seg = <<DOT>>
IsDotDot(seg) == seg = <<DOT, DOT>>

(* empty, or named segments joined by single \ *)
NamedTail(tail) ==
    tail = << >> \/ \A i \in 1..Len(SplitSegs(tail)) : IsName(SplitSegs(tail)[i])

(* p is root + k copies of ..\ + a tail of named segments *)
RootDotDotTail(p) == RootLen(p) > 0 /\ NamedTail(StripDotDots(AfterRoot(p)))

ResultKeepsRoot ==
    /\ res.hr = S_OK
    /\ Len(res.path_out) >= RootLen(arg.path_in)
    /\ SubSeq(res.path_out, 1, RootLen(arg.path_in)) = RootOf(arg.path_in)

(* C1 as stated: for every classified root, root + k copies of ..\ + tail
   canonicalizes (default flags) to a result that starts with the root. *)
C1_RootKeptEveryRoot ==
    (DefaultCanonCall /\ RootDotDotTail(arg.path_in)) => ResultKeepsRoot

(* C1 amended: the same for every classified root that is not a device-disk
   (\\?\X:) or device-UNC (\\?\UNC\) root, whose prefix is stripped. *)
C1_RootKept ==
    (DefaultCanonCall /\ RootDotDotTail(arg.path_in) /\ ~StrippablePrefix(arg.path_in))
        => ResultKeepsRoot

C1_Witness ==
    /\ DefaultCanonCall
    /\ RootDotDotTail(arg.path_in)
    /\ ~StrippablePrefix(arg.path_in)
    /\ Len(AfterRoot(arg.path_in)) > 6
    /\ SubSeq(AfterRoot(arg.path_in), 1, 6) = DotDotSep \o DotDotSep
    /\ StripDotDots(AfterRoot(arg.path_in)) # << >>
    /\ ResultKeepsRoot

(* C2: on success (default flags) the root classified on the output is at
   least as long as the root classified on the input; stated here for the
   inputs without a \\?\ device prefix (drive, UNC and root-relative roots). *)
C2_RootNeverShrinks ==
    (DefaultCanonCall /\ res.hr = S_OK /\ ~HasPrefix(arg.path_in, prefix_disk))
        => RootLen(res.path_out) >= RootLen(arg.path_in)

(* C3: canonicalizing the result of a successful canonicalization (default
   flags) succeeds and returns that result unchanged. *)
C3_Idempotent ==
    (DefaultCanonCall /\ prev.op = "PathAllocCanonicalize")
        => (res.hr = S_OK /\ res.path_out = arg.path_in)

(* the reference segment algorithm of C4 *)
RECURSIVE Survivors(_, _)
Survivors(segs, kept) ==
    IF segs = << >> THEN kept
    ELSE IF IsDot(Head(segs)) THEN Survivors(Tail(segs), kept)
    ELSE IF IsDotDot(Head(segs))
         THEN Survivors(Tail(segs),
                        IF kept = << >> THEN kept ELSE SubSeq(kept, 1, Len(kept) - 1))
    ELSE Survivors(Tail(segs), Append(kept, Head(segs)))

(* root + segments, each a dot-free name, . or .. *)
SegmentForm(p) ==
    AfterRoot(p) = << >>
    \/ \A i \in 1..Len(SplitSegs(AfterRoot(p))) :
          LET seg == SplitSegs(AfterRoot(p))[i] IN IsName(seg) \/ IsDot(seg) \/ IsDotDot(seg)

Reference(p) ==
    LET segs == IF AfterRoot(p) = << >> THEN << >> ELSE SplitSegs(AfterRoot(p))
        r    == RootOf(p) \o Joined(Survivors(segs, << >>))
    IN  IF r = << >> THEN <<BSLASH>> ELSE r

(* the root forms X:\, \ and \\: a root that ends in a separator, no device prefix *)
SeparatorRoot(p) ==
    /\ RootLen(p) > 0
    /\ p[RootLen(p)] = BSLASH
    /\ ~HasPrefix(p, prefix_disk)

(* C4: on every input root + segments (names, . and ..) the result (default
   flags) is the unchanged root followed by the surviving names joined by
   single \, or \ when that is empty; stated here for the inputs whose root
   is X:\, \ or \\. *)
C4_AgreesWithReference ==
    (DefaultCanonCall /\ SegmentForm(arg.path_in) /\ SeparatorRoot(arg.path_in))
        => (res.hr = S_OK /\ res.path_out = Reference(arg.path_in))

(* C5: \\?\UNC\server\share\..\x canonicalizes (default flags) to
   \\server\share\x. *)
C5_UncShareKept ==
    (DefaultCanonCall /\ arg.path_in = UncSharePath)
        => (res.hr = S_OK /\ res.path_out = UncShareCanonical)

-----------------------------------------------------------------------------
(* The heap: HeapAlloc leaves its block uninitialized (every unit of a new *)
(* block reads as some junk unit), and an allocation can fail.  avail is   *)
(* the number of allocations the heap still serves.                        *)

E_OUTOFMEMORY == "E_OUTOFMEMORY"

HeapAlloc(n, junk) == [i \in 1..n |-> junk]

(* lstrcpyW(buf + at, s): the string and its terminator *)
strcpyAt(buf, at, s) == WrSeq(buf, at, s \o <<NUL>>)

(* PathAllocCanonicalize with its LocalAlloc served or refused by the heap *)
PathAllocCanonicalizeHeap(path_in, flags, avail) ==
    LET Served(r) ==
            IF r.hr = S_OK /\ avail = 0 THEN [hr |-> E_OUTOFMEMORY, path_out |-> NULL] ELSE r
    IN  Served(PathAllocCanonicalize(path_in, flags))

-----------------------------------------------------------------------------
(* PathCchSkipRoot, PathCchStripToRoot on a buffer holding a string *)

(* root_end is the index of the first code unit after the root *)
PathCchSkipRoot(path) ==
    IF \/ At(path, 0) = NUL
       \/ (HasPrefixI(path, <<BSLASH, BSLASH, QMARK>>) /\ ~is_prefixed_volume(path)
           /\ ~is_prefixed_unc(path) /\ ~is_prefixed_disk(path))
    THEN [hr |-> E_INVALIDARG, root_end |-> NoRoot]
    ELSE LET r == get_root_end(path) IN
         IF r = NoRoot THEN [hr |-> E_INVALIDARG, root_end |-> NoRoot]
         ELSE IF is_prefixed_unc(path)
              THEN LET a == get_next_segment(path, r + 1)
                       b == get_next_segment(path, a.next)
                   IN  [hr |-> S_OK, root_end |-> b.next]
         ELSE IF At(path, 0) = BSLASH /\ At(path, 1) = BSLASH /\ At(path, 2) # QMARK
              THEN LET a == get_next_segment(path, r + 1) IN
                   IF At(path, a.next) # BSLASH
                   THEN [hr |-> S_OK, root_end |-> get_next_segment(path, a.next).next]
                   ELSE [hr |-> S_OK, root_end |-> a.next]
         ELSE [hr |-> S_OK, root_end |-> r + 1]

(* oob: the segment scan started or ran outside the allocation *)
PathCchStripToRoot(path, size) ==
    IF At(path, 0) = NUL \/ size = 0 \/ size > PATHCCH_MAX_CCH
    THEN [hr |-> E_INVALIDARG, path |-> path, oob |-> FALSE]
    ELSE
      LET is_unc == is_prefixed_unc(path)
          Second(b) ==
              IF ~b.ret THEN [hr |-> S_FALSE, path |-> path, oob |-> b.next >= Len(path)]
              ELSE IF b.next >= size THEN [hr |-> E_INVALIDARG, path |-> path, oob |-> FALSE]
              ELSE [hr |-> S_OK, path |-> Wr(path, b.next - 1, NUL), oob |-> FALSE]
          First(a) ==
              IF ~a.ret THEN [hr |-> S_FALSE, path |-> path, oob |-> a.next >= Len(path)]
              ELSE Second(get_next_segment(path, a.next))
          Skipped(sk) ==
              IF sk.hr = S_OK
              THEN IF sk.root_end >= size THEN [hr |-> E_INVALIDARG, path |-> path, oob |-> FALSE]
                   ELSE IF Rd(path, sk.root_end) = NUL
                        THEN [hr |-> S_FALSE, path |-> path, oob |-> FALSE]
                   ELSE [hr |-> S_OK, path |-> Wr(path, sk.root_end, NUL), oob |-> FALSE]
              ELSE [hr |-> E_INVALIDARG, path |-> path, oob |-> FALSE]
      IN  IF is_unc \/ (At(path, 0) = BSLASH /\ At(path, 1) = BSLASH /\ At(path, 2) # QMARK)
          THEN First(get_next_segment(path, IF is_unc THEN 8 ELSE 3))
          ELSE Skipped(PathCchSkipRoot(path))

-----------------------------------------------------------------------------
(* PathAllocCombine *)

(* "If path2 is fully qualified, use path2 only" *)
FullyQualified(path2) ==
    \/ (isalphaW(At(path2, 0)) /\ At(path2, 1) = COLON)
    \/ (At(path2, 0) = BSLASH /\ At(path2, 1) = BSLASH)

(* path2 added to the block that holds path1; path2 is null when it was *)
(* used as path1                                                        *)
JoinedPath(combined_path, combined_length, path2) ==
    IF path2 # NULL /\ At(path2, 0) # NUL
    THEN LET rooted == At(path2, 0) = BSLASH /\ At(path2, 1) # BSLASH
             Appended(joined) ==
                 Str(strcpyAt(joined, strlenW(joined), IF rooted THEN Tail(path2) ELSE path2))
         IN  Appended(PathCchAddBackslashEx(
                        IF rooted
                        THEN PathCchStripToRoot(combined_path, combined_length).path
                        ELSE combined_path,
                        combined_length).path)
    ELSE Str(combined_path)

(* the heap block after lstrcpyW(combined_path, path1), PathCchStripPrefix and, *)
(* when path2 was used as path1, PathCchAddBackslashEx                          *)
CopiedPath(path1, combined_length, junk, from_path2) ==
    LET Slashed(stripped) ==
            IF from_path2
            THEN PathCchAddBackslashEx(stripped, combined_length).path
            ELSE stripped
    IN  Slashed(PathCchStripPrefix(strcpyAt(HeapAlloc(combined_length, junk), 0, path1),
                                   combined_length).path)

(* the combined path handed to PathAllocCanonicalize, both paths non-null *)
CombinedPath(path1, path2, junk) ==
    IF FullyQualified(path2)
    THEN JoinedPath(CopiedPath(path2, Len(path2) + 2, junk, TRUE), Len(path2) + 2, NULL)
    ELSE JoinedPath(CopiedPath(path1, Len(path1) + Len(path2) + 2, junk, FALSE),
                    Len(path1) + Len(path2) + 2, path2)

PathAllocCombine(path1, path2, flags, junk, avail) ==
    IF path1 = NULL /\ path2 = NULL THEN [hr |-> E_INVALIDARG, path_out |-> NULL]
    ELSE IF path1 = NULL \/ path2 = NULL
         THEN PathAllocCanonicalizeHeap(IF path1 # NULL THEN path1 ELSE path2, flags, avail)
    ELSE IF avail = 0 THEN [hr |-> E_OUTOFMEMORY, path_out |-> NULL]
    ELSE PathAllocCanonicalizeHeap(CombinedPath(path1, path2, junk), flags, avail - 1)

-----------------------------------------------------------------------------
(* PathCchCanonicalizeEx, PathCchCombineEx, PathCchAppendEx: out and path1 *)
(* are the caller's buffers, size is the capacity the caller states.       *)

(* "Fill a backslash at the end of X:" *)
FillDriveRoot(out, size) ==
    IF isalphaW(Rd(out, 0)) /\ Rd(out, 1) = COLON /\ Rd(out, 2) = NUL /\ size > 3
    THEN Wr(Wr(out, 2, BSLASH), 3, NUL)
    ELSE out

PathCchCanonicalizeEx(out, size, in, flags, avail) ==
    IF size = 0 THEN [hr |-> E_INVALIDARG, out |-> out]
    ELSE
      LET Copied(r) ==
              IF FAILED(r.hr) THEN [hr |-> r.hr, out |-> out]
              ELSE IF size < Len(r.path_out) + 1
              THEN IF Len(r.path_out) > MAX_PATH - 4
                      /\ ~(At(in, 0) = BSLASH
                           \/ (isalphaW(At(in, 0)) /\ At(in, 1) = COLON /\ At(in, 2) = BSLASH))
                   THEN [hr |-> E_FILENAME_EXCED_RANGE, out |-> out]
                   ELSE [hr |-> STRSAFE_E_INSUFFICIENT_BUFFER, out |-> out]
              ELSE [hr |-> r.hr, out |-> FillDriveRoot(strcpyAt(out, 0, r.path_out), size)]
      IN  Copied(PathAllocCanonicalizeHeap(in, flags, avail))

PathCchCombineEx(out, size, path1, path2, flags, junk, avail) ==
    IF out = NULL \/ size = 0 \/ size > PATHCCH_MAX_CCH THEN [hr |-> E_INVALIDARG, out |-> out]
    ELSE
      LET Copied(r) ==
              IF FAILED(r.hr) THEN [hr |-> r.hr, out |-> Wr(out, 0, NUL)]
              ELSE IF Len(r.path_out) + 1 > size
                   THEN [hr |-> STRSAFE_E_INSUFFICIENT_BUFFER, out |-> Wr(out, 0, NUL)]
              ELSE [hr |-> S_OK, out |-> strcpyAt(out, 0, r.path_out)]
      IN  Copied(PathAllocCombine(path1, path2, flags, junk, avail))

(* "Avoid the single backslash behavior with PathCchCombineEx when appending" *)
AppendedPath(path2) ==
    IF path2 # NULL /\ At(path2, 0) = BSLASH /\ At(path2, 1) # BSLASH THEN Tail(path2) ELSE path2

(* the first size units of result copied over path1 *)
CopyBack(path1, result, size) ==
    [i \in 1..Len(path1) |-> IF i <= size /\ i <= Len(result) THEN result[i] ELSE path1[i]]

(* path1 itself handed to PathCchCombineEx as the output buffer *)
PathCchAppendEx_InPlace(path1, size, path2, flags, junk, avail) ==
    IF path1 = NULL \/ size = 0 THEN [hr |-> E_INVALIDARG, path1 |-> path1]
    ELSE LET Combined(c) == [hr |-> c.hr, path1 |-> c.out]
         IN  Combined(PathCchCombineEx(path1, size, Str(path1), AppendedPath(path2),
                                       flags, junk, avail))

PathCchAppendEx(path1, size, path2, flags, junk, avail) ==
    IF path1 = NULL \/ size = 0 THEN [hr |-> E_INVALIDARG, path1 |-> path1]
    ELSE IF avail = 0 THEN [hr |-> E_OUTOFMEMORY, path1 |-> path1]
    ELSE
      LET Combined(c) ==
              IF SUCCEEDED(c.hr)
              THEN [hr |-> c.hr, path1 |-> CopyBack(path1, c.out, size)]
              ELSE [hr |-> c.hr, path1 |-> path1]
      IN  Combined(PathCchCombineEx(HeapAlloc(size, junk), size, Str(path1),
                                    AppendedPath(path2), flags, junk, avail - 1))

-----------------------------------------------------------------------------
(* URL engine: flags, scheme table, ParseURLW *)

URL_E_INVALID_SYNTAX == "URL_E_INVALID_SYNTAX"

(* URL_* option bits, by name *)
URL_ESCAPE_SPACES_ONLY     == "URL_ESCAPE_SPACES_ONLY"
URL_ESCAPE_SEGMENT_ONLY    == "URL_ESCAPE_SEGMENT_ONLY"
URL_DONT_ESCAPE_EXTRA_INFO == "URL_DONT_ESCAPE_EXTRA_INFO"
URL_ESCAPE_PERCENT         == "URL_ESCAPE_PERCENT"
URL_ESCAPE_AS_UTF8         == "URL_ESCAPE_AS_UTF8"
URL_ESCAPE_UNSAFE          == "URL_ESCAPE_UNSAFE"
URL_UNESCAPE               == "URL_UNESCAPE"
URL_UNESCAPE_INPLACE       == "URL_UNESCAPE_INPLACE"
URL_DONT_SIMPLIFY          == "URL_DONT_SIMPLIFY"
URL_FILE_USE_PATHURL       == "URL_FILE_USE_PATHURL"
URL_WININET_COMPATIBILITY  == "URL_WININET_COMPATIBILITY"

(* the same bit as URL_DONT_ESCAPE_EXTRA_INFO *)
URL_DONT_UNESCAPE_EXTRA_INFO == URL_DONT_ESCAPE_EXTRA_INFO

URL_SCHEME_INVALID == "URL_SCHEME_INVALID"
URL_SCHEME_UNKNOWN == "URL_SCHEME_UNKNOWN"
URL_SCHEME_FTP     == "URL_SCHEME_FTP"
URL_SCHEME_HTTP    == "URL_SCHEME_HTTP"
URL_SCHEME_HTTPS   == "URL_SCHEME_HTTPS"
URL_SCHEME_FILE    == "URL_SCHEME_FILE"
URL_SCHEME_MAILTO  == "URL_SCHEME_MAILTO"

url_schemes ==
    <<
       [scheme_number |-> "URL_SCHEME_FTP", scheme_name |-> <<102, 116, 112>>],
       [scheme_number |-> "URL_SCHEME_HTTP", scheme_name |-> <<104, 116, 116, 112>>],
       [scheme_number |-> "URL_SCHEME_GOPHER", scheme_name |-> <<103, 111, 112, 104, 101, 114>>],
       [scheme_number |-> "URL_SCHEME_MAILTO", scheme_name |-> <<109, 97, 105, 108, 116, 111>>],
       [scheme_number |-> "URL_SCHEME_NEWS", scheme_name |-> <<110, 101, 119, 115>>],
       [scheme_number |-> "URL_SCHEME_NNTP", scheme_name |-> <<110, 110, 116, 112>>],
       [scheme_number |-> "URL_SCHEME_TELNET", scheme_name |-> <<116, 101, 108, 110, 101, 116>>],
       [scheme_number |-> "URL_SCHEME_WAIS", scheme_name |-> <<119, 97, 105, 115>>],
       [scheme_number |-> "URL_SCHEME_FILE", scheme_name |-> <<102, 105, 108, 101>>],
       [scheme_number |-> "URL_SCHEME_MK", scheme_name |-> <<109, 107>>],
       [scheme_number |-> "URL_SCHEME_HTTPS", scheme_name |-> <<104, 116, 116, 112, 115>>],
       [scheme_number |-> "URL_SCHEME_SHELL", scheme_name |-> <<115, 104, 101, 108, 108>>],
       [scheme_number |-> "URL_SCHEME_SNEWS", scheme_name |-> <<115, 110, 101, 119, 115>>],
       [scheme_number |-> "URL_SCHEME_LOCAL", scheme_name |-> <<108, 111, 99, 97, 108>>],
       [scheme_number |-> "URL_SCHEME_JAVASCRIPT", scheme_name |-> <<106, 97, 118, 97, 115, 99, 114, 105, 112, 116>>],
       [scheme_number |-> "URL_SCHEME_VBSCRIPT", scheme_name |-> <<118, 98, 115, 99, 114, 105, 112, 116>>],
       [scheme_number |-> "URL_SCHEME_ABOUT", scheme_name |-> <<97, 98, 111, 117, 116>>],
       [scheme_number |-> "URL_SCHEME_RES", scheme_name |-> <<114, 101, 115>>]
    >>

(* the first table entry whose name equals scheme[0..scheme_len), case-insensitively *)
get_scheme_code(scheme, scheme_len) ==
    LET hits == {i \in 1..Len(url_schemes) :
                    /\ scheme_len = Len(url_schemes[i].scheme_name)
                    /\ HasPrefixI(scheme, url_schemes[i].scheme_name)}
    IN  IF hits = {} THEN URL_SCHEME_UNKNOWN
        ELSE url_schemes[CHOOSE i \in hits : \A j \in hits : i <= j].scheme_number

(* index of the first code unit from ptr on that cannot be part of a scheme *)
RECURSIVE SchemeEnd(_, _)
SchemeEnd(url, ptr) ==
    LET c == At(url, ptr) IN
    IF c # NUL /\ (isalnumW(c) \/ c = DASH \/ c = PLUS \/ c = DOT)
    THEN SchemeEnd(url, ptr + 1)
    ELSE ptr

(* cchProtocol, nScheme and the index pszSuffix of the text after the colon *)
ParseURLW(url) ==
    LET Parsed(ptr) ==
            IF At(url, ptr) # COLON \/ ptr <= 1
            THEN [hr |-> URL_E_INVALID_SYNTAX, cchProtocol |-> 0, pszSuffix |-> 0,
                  nScheme |-> URL_SCHEME_INVALID]
            ELSE [hr |-> S_OK, cchProtocol |-> ptr, pszSuffix |-> ptr + 1,
                  nScheme |-> get_scheme_code(url, ptr)]
    IN  Parsed(SchemeEnd(url, 0))

-----------------------------------------------------------------------------
(* UrlUnescapeW *)

(* a length pointer that is null *)
NoLen == -1

(* the value of a digit or a lower-case letter *)
HexValue_LowerCase(c) == IF isdigitW(c) THEN c - 48 ELSE c - 97 + 10

(* value of a hexadecimal digit *)
HexValue(c) ==
    IF isdigitW(c) THEN c - 48 ELSE IF c >= 97 THEN c - 97 + 10 ELSE c - 65 + 10

(* the code units the loop stores, in order, scanning from src *)
RECURSIVE UnescapeLoop(_, _, _, _)
UnescapeLoop(url, src, stop_unescaping, flags) ==
    LET c == At(url, src) IN
    IF c = NUL THEN << >>
    ELSE IF URL_DONT_UNESCAPE_EXTRA_INFO \in flags /\ (c = HASH \/ c = QMARK)
         THEN <<c>> \o UnescapeLoop(url, src + 1, TRUE, flags)
    ELSE IF c = PCT /\ isxdigitW(At(url, src + 1)) /\ isxdigitW(At(url, src + 2))
            /\ ~stop_unescaping
         THEN <<HexValue(At(url, src + 1)) * 16 + HexValue(At(url, src + 2))>>
                  \o UnescapeLoop(url, src + 3, stop_unescaping, flags)
    ELSE <<c>> \o UnescapeLoop(url, src + 1, stop_unescaping, flags)

EscapeEnd_Stay(src) == src

(* "src += 2": src at the end of the escape that begins at src *)
EscapeEnd(src) == src + 2

(* the loop with dst = url: every unit is read from the buffer the stores go  *)
(* to; passed tells whether dst was ever beyond src at a store                *)
RECURSIVE UnescapeInPlace(_, _, _, _, _, _)
UnescapeInPlace(url, src, dst, stop_unescaping, flags, passed) ==
    IF At(url, src) = NUL THEN [url |-> url, dst |-> dst, passed |-> passed]
    ELSE IF URL_DONT_UNESCAPE_EXTRA_INFO \in flags /\ At(url, src) \in {HASH, QMARK}
         THEN UnescapeInPlace(Wr(url, dst, At(url, src)), src + 1, dst + 1, TRUE, flags,
                              passed \/ dst > src)
    ELSE IF At(url, src) = PCT /\ isxdigitW(At(url, src + 1)) /\ isxdigitW(At(url, src + 2))
            /\ ~stop_unescaping
         THEN UnescapeInPlace(Wr(url, dst, HexValue(At(url, src + 1)) * 16
                                              + HexValue(At(url, src + 2))),
                              EscapeEnd(src) + 1, dst + 1, stop_unescaping, flags,
                              passed \/ dst > EscapeEnd(src))
    ELSE UnescapeInPlace(Wr(url, dst, At(url, src)), src + 1, dst + 1, stop_unescaping,
                         flags, passed \/ dst > src)

(* url and unescaped are buffers, unescaped_len the capacity the caller states *)
UrlUnescapeW(url, unescaped, unescaped_len, flags) ==
    LET same == [hr |-> E_INVALIDARG, url |-> url, unescaped |-> unescaped,
                 unescaped_len |-> unescaped_len]
        Ended(r) == Wr(r.url, r.dst, NUL)
    IN
    IF url = NULL THEN same
    ELSE IF URL_UNESCAPE_INPLACE \in flags
    THEN [same EXCEPT !.hr = S_OK,
                      !.url = Ended(UnescapeInPlace(url, 0, 0, FALSE, flags, FALSE))]
    ELSE IF unescaped = NULL \/ unescaped_len = NoLen THEN same
    ELSE
      LET Stored(stored) ==
              IF Len(stored) < unescaped_len
              THEN [same EXCEPT !.hr = S_OK,
                                !.unescaped = WrSeq(unescaped, 0, stored \o <<NUL>>),
                                !.unescaped_len = Len(stored)]
              ELSE [same EXCEPT !.hr = E_POINTER,
                                !.unescaped = WrSeq(unescaped, 0,
                                                    SubSeq(stored, 1, unescaped_len)),
                                !.unescaped_len = Len(stored) + 1]
      IN  Stored(UnescapeLoop(url, 0, FALSE, flags))

-----------------------------------------------------------------------------
(* UrlEscapeW *)

WINE_URL_BASH_AS_SLASH    == "WINE_URL_BASH_AS_SLASH"
WINE_URL_COLLAPSE_SLASHES == "WINE_URL_COLLAPSE_SLASHES"
WINE_URL_ESCAPE_SLASH     == "WINE_URL_ESCAPE_SLASH"
WINE_URL_ESCAPE_HASH      == "WINE_URL_ESCAPE_HASH"
WINE_URL_ESCAPE_QUESTION  == "WINE_URL_ESCAPE_QUESTION"
WINE_URL_STOP_ON_HASH     == "WINE_URL_STOP_ON_HASH"
WINE_URL_STOP_ON_QUESTION == "WINE_URL_STOP_ON_QUESTION"

(* "0123456789ABCDEF" *)
hexDigits == <<48, 49, 50, 51, 52, 53, 54, 55, 56, 57, 65, 66, 67, 68, 69, 70>>

localhost == <<108, 111, 99, 97, 108, 104, 111, 115, 116>>

(* the punctuation without & *)
UnsafePunctuation_NoAmpersand == {32, 60, 62, 34, 123, 125, 124, 92, 94, 93, 91, 96}

(* space < > " { } | \ ^ ] [ ` & *)
UnsafePunctuation == {32, 60, 62, 34, 123, 125, 124, 92, 94, 93, 91, 96, 38}

url_needs_escape(ch, flags, int_flags) ==
    IF URL_ESCAPE_SPACES_ONLY \in flags THEN ch = SPACE
    ELSE IF URL_ESCAPE_PERCENT \in flags /\ ch = PCT THEN TRUE
    ELSE IF URL_ESCAPE_AS_UTF8 \in flags /\ ch >= 128 THEN TRUE
    ELSE IF ch <= 31 \/ (ch >= 127 /\ ch <= 255) THEN TRUE
    ELSE IF isalnumW(ch) THEN FALSE
    ELSE IF ch \in UnsafePunctuation THEN TRUE
    ELSE IF ch = SLASH THEN WINE_URL_ESCAPE_SLASH \in int_flags
    ELSE IF ch = QMARK THEN WINE_URL_ESCAPE_QUESTION \in int_flags
    ELSE IF ch = HASH THEN WINE_URL_ESCAPE_HASH \in int_flags
    ELSE FALSE

(* "fix up flags" *)
FixUpFlags(flags) ==
    IF URL_ESCAPE_SPACES_ONLY \in flags
    THEN flags \ {URL_DONT_ESCAPE_EXTRA_INFO, URL_ESCAPE_PERCENT, URL_ESCAPE_SEGMENT_ONLY}
    ELSE flags \cup {URL_DONT_ESCAPE_EXTRA_INFO}

(* int_flags, from the fixed-up flags and the scheme of url *)
IntFlags(url, flags) ==
    IF URL_ESCAPE_SEGMENT_ONLY \in flags
    THEN {WINE_URL_ESCAPE_QUESTION, WINE_URL_ESCAPE_HASH, WINE_URL_ESCAPE_SLASH}
    ELSE
      LET stops == IF URL_DONT_ESCAPE_EXTRA_INFO \in flags
                   THEN {WINE_URL_STOP_ON_HASH, WINE_URL_STOP_ON_QUESTION} ELSE {}
          Scheme(nScheme, suffix0) ==
              CASE nScheme = URL_SCHEME_FILE ->
                     (stops \cup {WINE_URL_BASH_AS_SLASH, WINE_URL_COLLAPSE_SLASHES,
                                  WINE_URL_ESCAPE_HASH}) \ {WINE_URL_STOP_ON_HASH}
                [] nScheme \in {URL_SCHEME_HTTP, URL_SCHEME_HTTPS} ->
                     stops \cup {WINE_URL_BASH_AS_SLASH}
                           \cup (IF suffix0 # SLASH /\ suffix0 # BSLASH
                                 THEN {WINE_URL_ESCAPE_SLASH} ELSE {})
                [] nScheme = URL_SCHEME_MAILTO ->
                     (stops \cup {WINE_URL_ESCAPE_SLASH, WINE_URL_ESCAPE_QUESTION,
                                  WINE_URL_ESCAPE_HASH})
                         \ {WINE_URL_STOP_ON_QUESTION, WINE_URL_STOP_ON_HASH}
                [] nScheme = URL_SCHEME_INVALID -> stops
                [] OTHER ->
                     stops \cup (IF suffix0 # SLASH THEN {WINE_URL_ESCAPE_SLASH} ELSE {})
          Parsed(parsed_url) == Scheme(parsed_url.nScheme, At(url, parsed_url.pszSuffix))
      IN  Parsed(ParseURLW(url))

(* the two digits in the wrong order *)
PercentByte_LowNibbleFirst(b) ==
    <<PCT, hexDigits[(b % 16) + 1], hexDigits[((b \div 16) % 16) + 1]>>

(* % and the two hexadecimal digits of the byte b *)
PercentByte(b) == <<PCT, hexDigits[((b \div 16) % 16) + 1], hexDigits[(b % 16) + 1]>>

RECURSIVE PercentBytes(_)
PercentBytes(bytes) ==
    IF bytes = << >> THEN << >> ELSE PercentByte(Head(bytes)) \o PercentBytes(Tail(bytes))

IsSurrogate(c)     == c >= 55296 /\ c <= 57343
IsHighSurrogate(c) == c >= 55296 /\ c <= 56319
IsLowSurrogate(c)  == c >= 56320 /\ c <= 57343

(* WideCharToMultiByte(CP_UTF8, WC_ERR_INVALID_CHARS) on one or two code units; *)
(* the empty sequence when the units are no valid UTF-16                        *)
Utf8(units) ==
    LET c == units[1] IN
    IF Len(units) = 2
    THEN IF IsHighSurrogate(c) /\ IsLowSurrogate(units[2])
         THEN LET cp == 65536 + (c - 55296) * 1024 + (units[2] - 56320) IN
              <<240 + (cp \div 262144), 128 + ((cp \div 4096) % 64),
                128 + ((cp \div 64) % 64), 128 + (cp % 64)>>
         ELSE << >>
    ELSE IF c < 128 THEN <<c>>
    ELSE IF c < 2048 THEN <<192 + (c \div 64), 128 + (c % 64)>>
    ELSE IF IsSurrogate(c) THEN << >>
    ELSE <<224 + (c \div 4096), 128 + ((c \div 64) % 64), 128 + (c % 64)>>

(* number of consecutive / and \ from src on *)
RECURSIVE SlashRun(_, _)
SlashRun(url, src) ==
    IF At(url, src) = SLASH \/ At(url, src) = BSLASH THEN 1 + SlashRun(url, src + 1) ELSE 0

(* the three bytes of U+FFFD when the units were no valid UTF-16 *)
PercentUtf8(utf) == PercentBytes(IF utf = << >> THEN <<239, 191, 189>> ELSE utf)

(* src and slashes after the run of / and \ that follows the scheme:      *)
(* "file://localhost/ -> file:///"                                        *)
AfterSlashRun(url, src, slashes) ==
    IF slashes = 2 /\ HasPrefixI(From(url, src), localhost)
    THEN [src     |-> IF At(url, src + 9) = SLASH \/ At(url, src + 9) = BSLASH
                      THEN src + 10 ELSE src,
          slashes |-> 3]
    ELSE [src |-> src, slashes |-> slashes]

(* what is stored for a run of slashes: "switch (slashes)" *)
FoldedSlashes(slashes) ==
    IF slashes = 0 THEN << >>
    ELSE IF slashes = 1 \/ slashes = 3 THEN <<SLASH, SLASH, SLASH>>
    ELSE <<SLASH, SLASH>>

(* stop_escaping after the unit at src has been looked at *)
StopEscaping(url, int_flags, src, stop_escaping) ==
    \/ stop_escaping
    \/ (At(url, src) = HASH /\ WINE_URL_STOP_ON_HASH \in int_flags)
    \/ (At(url, src) = QMARK /\ WINE_URL_STOP_ON_QUESTION \in int_flags)

(* "if (len == 0)": the units stored for the unit at src, and src after it *)
StoredUnit(url, flags, int_flags, src, slashes, stop) ==
    LET Unit(cur) ==
            IF url_needs_escape(cur, flags, int_flags) /\ ~stop
            THEN IF URL_ESCAPE_AS_UTF8 \in flags
                 THEN IF IsSurrogate(cur) /\ IsLowSurrogate(At(url, src + 1))
                      THEN [next |-> PercentUtf8(Utf8(<<At(url, src), At(url, src + 1)>>)),
                            src |-> src + 2, slashes |-> slashes, stop_escaping |-> stop]
                      ELSE [next |-> PercentUtf8(Utf8(<<cur>>)),
                            src |-> src + 1, slashes |-> slashes, stop_escaping |-> stop]
                 ELSE [next |-> PercentByte(cur),
                       src |-> src + 1, slashes |-> slashes, stop_escaping |-> stop]
            ELSE [next |-> <<cur>>, src |-> src + 1, slashes |-> slashes,
                  stop_escaping |-> stop]
    IN  Unit(IF At(url, src) = BSLASH /\ WINE_URL_BASH_AS_SLASH \in int_flags /\ ~stop
             THEN SLASH ELSE At(url, src))

(* needed += len, next stored through dst when it still fits *)
StoreNext(s, escaped_len, t) ==
    [src           |-> t.src,
     slashes       |-> t.slashes,
     stop_escaping |-> t.stop_escaping,
     needed        |-> s.needed + Len(t.next),
     dst           |-> IF s.needed + Len(t.next) <= escaped_len THEN s.dst \o t.next
                       ELSE s.dst]

(* one iteration of the escape loop; s holds src, slashes, stop_escaping,   *)
(* needed and the units stored through dst so far                           *)
EscapeStep(url, flags, int_flags, cchProtocol, escaped_len, s) ==
    LET Unit(src, slashes) ==
            StoreNext(s, escaped_len,
                      StoredUnit(url, flags, int_flags, src, slashes,
                                 StopEscaping(url, int_flags, src, s.stop_escaping)))
        Folded(r) ==
            IF r.slashes = 0 THEN Unit(r.src, r.slashes)
            ELSE StoreNext(s, escaped_len,
                           [next |-> FoldedSlashes(r.slashes), src |-> r.src,
                            slashes |-> r.slashes, stop_escaping |-> s.stop_escaping])
    IN  IF WINE_URL_COLLAPSE_SLASHES \in int_flags /\ s.src = cchProtocol + 1
        THEN Folded(AfterSlashRun(url, s.src + SlashRun(url, s.src),
                                  s.slashes + SlashRun(url, s.src)))
        ELSE Unit(s.src, s.slashes)

RECURSIVE EscapeLoop(_, _, _, _, _, _)
EscapeLoop(url, flags, int_flags, cchProtocol, escaped_len, s) ==
    IF At(url, s.src) = NUL THEN s
    ELSE EscapeLoop(url, flags, int_flags, cchProtocol, escaped_len,
                    EscapeStep(url, flags, int_flags, cchProtocol, escaped_len, s))

(* the length reported on E_POINTER without the unit for the terminator *)
RequiredLength_NoTerminator(needed) == needed

(* "add one for the '\0'" *)
RequiredLength(needed) == needed + 1

(* escaped is the caller's buffer, escaped_len the capacity the caller states, *)
(* avail the number of allocations the heap still serves                      *)
UrlEscapeW(url, escaped, escaped_len, flags, avail) ==
    IF url = NULL \/ escaped_len = NoLen \/ escaped = NULL \/ escaped_len = 0
    THEN [hr |-> E_INVALIDARG, escaped |-> escaped, escaped_len |-> escaped_len]
    ELSE IF avail = 0
    THEN [hr |-> E_OUTOFMEMORY, escaped |-> escaped, escaped_len |-> escaped_len]
    ELSE
      LET Stored(s) ==
              IF s.needed < escaped_len
              THEN [hr |-> S_OK, escaped |-> WrSeq(escaped, 0, s.dst \o <<NUL>>),
                    escaped_len |-> s.needed]
              ELSE [hr |-> E_POINTER, escaped |-> escaped,
                    escaped_len |-> RequiredLength(s.needed)]
          Escaped(fixed) ==
              Stored(EscapeLoop(url, fixed, IntFlags(url, fixed), ParseURLW(url).cchProtocol,
                                escaped_len,
                                [src |-> 0, slashes |-> 0, stop_escaping |-> FALSE,
                                 needed |-> 0, dst |-> << >>]))
      IN  Escaped(FixUpFlags(flags))

-----------------------------------------------------------------------------
(* UrlCanonicalizeW *)

wszFile       == <<102, 105, 108, 101, 58>>                  \* file:
wszRes        == <<114, 101, 115, 58>>                       \* res:
wszHttp       == <<104, 116, 116, 112, 58>>                  \* http:
wszLocalhost  == <<108, 111, 99, 97, 108, 104, 111, 115, 116>>
wszFilePrefix == <<102, 105, 108, 101, 58, 47, 47, 47>>      \* file:///

(* "Remove '\t' characters from URL": the block url after the copy loop *)
StripTabs(src_url, junk) ==
    strcpyAt(HeapAlloc(Len(src_url) + 1, junk), 0, SelectSeq(src_url, LAMBDA c : c # TAB))

(* the preferred slash, NUL when there is none *)
PreferredSlash(url, nUnits, flags) ==
    LET is_file_url == HasPrefix(url, wszFile)
        first  == IF (nUnits >= Len(wszHttp) /\ HasPrefix(url, wszHttp)) \/ is_file_url
                  THEN SLASH ELSE NUL
        second == IF flags \cap {URL_FILE_USE_PATHURL, URL_WININET_COMPATIBILITY} # {}
                     /\ is_file_url
                  THEN BSLASH ELSE first
    IN  IF nUnits >= Len(wszRes) /\ HasPrefix(url, wszRes) THEN NUL ELSE second

(* CanonStart when a path with a drive is given the prefix file:/// and  *)
(* URL_ESCAPE_UNSAFE is not added to the flags                           *)
CanonStart_NoEscapeUnsafe(url, nUnits, flags0, junk) ==
    LET Start(cx, copy) ==
            IF Rd(url, 1) = COLON
            THEN IF cx.flags \cap {URL_FILE_USE_PATHURL, URL_WININET_COMPATIBILITY} # {}
                 THEN [cx |-> [cx EXCEPT !.slash = BSLASH, !.is_file_url = TRUE],
                       m  |-> [state |-> 5, wk1 |-> 0, wk2 |-> Len(wszFilePrefix) - 1,
                               copy |-> WrSeq(copy, 0, wszFilePrefix)]]
                 ELSE [cx |-> [cx EXCEPT !.is_file_url = TRUE],
                       m  |-> [state |-> 5, wk1 |-> 0, wk2 |-> Len(wszFilePrefix),
                               copy |-> WrSeq(copy, 0, wszFilePrefix)]]
            ELSE IF Rd(url, 0) = SLASH
            THEN [cx |-> [cx EXCEPT !.is_file_url = TRUE],
                  m  |-> [state |-> 5, wk1 |-> 0, wk2 |-> 0, copy |-> copy]]
            ELSE [cx |-> cx, m |-> [state |-> 0, wk1 |-> 0, wk2 |-> 0, copy |-> copy]]
    IN  Start([url |-> url, nUnits |-> nUnits,
               flags |-> IF nUnits >= Len(wszRes) /\ HasPrefix(url, wszRes)
                         THEN flags0 \ {URL_FILE_USE_PATHURL} ELSE flags0,
               slash |-> PreferredSlash(url, nUnits, flags0),
               is_file_url |-> HasPrefix(url, wszFile)],
              HeapAlloc(nUnits + Len(wszFilePrefix) + 1, junk))

(* slash, flags, is_file_url, state, wk1, wk2 and url_copy when the scan starts *)
CanonStart(url, nUnits, flags0, junk) ==
    LET Start(cx, copy) ==
            IF Rd(url, 1) = COLON
            THEN IF cx.flags \cap {URL_FILE_USE_PATHURL, URL_WININET_COMPATIBILITY} # {}
                 THEN [cx |-> [cx EXCEPT !.slash = BSLASH, !.is_file_url = TRUE],
                       m  |-> [state |-> 5, wk1 |-> 0, wk2 |-> Len(wszFilePrefix) - 1,
                               copy |-> WrSeq(copy, 0, wszFilePrefix)]]
                 ELSE [cx |-> [cx EXCEPT !.flags = cx.flags \cup {URL_ESCAPE_UNSAFE},
                                         !.is_file_url = TRUE],
                       m  |-> [state |-> 5, wk1 |-> 0, wk2 |-> Len(wszFilePrefix),
                               copy |-> WrSeq(copy, 0, wszFilePrefix)]]
            ELSE IF Rd(url, 0) = SLASH
            THEN [cx |-> [cx EXCEPT !.is_file_url = TRUE],
                  m  |-> [state |-> 5, wk1 |-> 0, wk2 |-> 0, copy |-> copy]]
            ELSE [cx |-> cx, m |-> [state |-> 0, wk1 |-> 0, wk2 |-> 0, copy |-> copy]]
    IN  Start([url |-> url, nUnits |-> nUnits,
               flags |-> IF nUnits >= Len(wszRes) /\ HasPrefix(url, wszRes)
                         THEN flags0 \ {URL_FILE_USE_PATHURL} ELSE flags0,
               slash |-> PreferredSlash(url, nUnits, flags0),
               is_file_url |-> HasPrefix(url, wszFile)],
              HeapAlloc(nUnits + Len(wszFilePrefix) + 1, junk))

(* the preferred slash when there is one, else c *)
SlashOr(cx, c) == IF cx.slash # NUL THEN cx.slash ELSE c

(* *wk2++ = c *)
Put(m, c) == [m EXCEPT !.copy = Wr(m.copy, m.wk2, c), !.wk2 = m.wk2 + 1]

(* *wk2++ = *wk1++ *)
Copy1(cx, m) == [Put(m, Rd(cx.url, m.wk1)) EXCEPT !.wk1 = m.wk1 + 1]

IsHostUnit(c) == isalnumW(c) \/ c = DASH \/ c = DOT \/ c = COLON

(* copy the run of authority units at wk1 *)
RECURSIVE CopyHost(_, _)
CopyHost(cx, m) ==
    IF IsHostUnit(Rd(cx.url, m.wk1)) THEN CopyHost(cx, Copy1(cx, m)) ELSE m

(* copy the run of / and \ at wk1, each as the preferred slash when there is one *)
RECURSIVE CopySlashes(_, _)
CopySlashes(cx, m) ==
    LET c == Rd(cx.url, m.wk1) IN
    IF c = SLASH \/ c = BSLASH
    THEN CopySlashes(cx, [Put(m, SlashOr(cx, c)) EXCEPT !.wk1 = m.wk1 + 1])
    ELSE m

(* index of the first unit from i on that is not c *)
RECURSIVE SkipUnits(_, _, _)
SkipUnits(url, i, c) == IF Rd(url, i) = c THEN SkipUnits(url, i + 1, c) ELSE i

(* state 2, after the second unit following the colon has been copied *)
AfterSlashSlash(cx, m) ==
    LET pathurl == URL_FILE_USE_PATHURL \in cx.flags
        wininet == URL_WININET_COMPATIBILITY \in cx.flags
        atLocal == pathurl /\ cx.nUnits * 2 >= Len(wszLocalhost) * 2 /\ cx.is_file_url
                   /\ HasPrefix(From(Str(cx.url), m.wk1), wszLocalhost)
        Body(wk1, body) ==
            LET single == Rd(cx.url, wk1) = SLASH /\ Rd(cx.url, wk1 + 1) # SLASH IN
            IF Rd(cx.url, wk1) = SLASH /\ pathurl THEN [m EXCEPT !.wk1 = wk1 + 1]
            ELSE IF ~cx.is_file_url THEN [m EXCEPT !.wk1 = wk1]
            ELSE IF isalnumW(Rd(cx.url, body)) /\ Rd(cx.url, body + 1) = COLON
                 THEN IF ~wininet /\ ~pathurl
                      THEN [Put(m, SlashOr(cx, SLASH)) EXCEPT !.wk1 = body]
                      ELSE [m EXCEPT !.wk1 = body]
            ELSE IF wininet
                 THEN IF single THEN [Put(m, BSLASH) EXCEPT !.wk1 = body]
                      ELSE [Put(Put(m, BSLASH), BSLASH) EXCEPT !.wk1 = body]
            ELSE IF single THEN [Put(m, SlashOr(cx, SLASH)) EXCEPT !.wk1 = body]
            ELSE [m EXCEPT !.wk1 = body]
        Host(wk1) == Body(wk1, SkipUnits(cx.url, wk1, SLASH))
    IN  Host(IF atLocal THEN SkipUnits(cx.url, m.wk1 + Len(wszLocalhost), BSLASH)
             ELSE m.wk1)

(* state 3 when it copies nothing and leaves wk1 where it is *)
CopyRest_Nothing(cx, m) == m

(* state 3: the rest of url copied as it is, slashes turned into the preferred one *)
CopyRest(cx, m) ==
    LET nWkLen == strlenFrom(cx.url, m.wk1)
        rest   == [i \in 1..nWkLen |->
                     LET c == Rd(cx.url, m.wk1 + i - 1) IN
                     IF cx.slash # NUL /\ (c = SLASH \/ c = BSLASH) THEN cx.slash ELSE c]
    IN  [m EXCEPT !.copy = WrSeq(m.copy, m.wk2, rest \o <<NUL>>),
                  !.wk1 = m.wk1 + nWkLen, !.wk2 = m.wk2 + nWkLen]

(* index of the first / or \ of the string at url + from, -1 when there is none *)
FirstSlash(url, from) ==
    LET hits == {i \in from..(from + strlenFrom(url, from) - 1) :
                    Rd(url, i) = SLASH \/ Rd(url, i) = BSLASH}
    IN  IF hits = {} THEN -1 ELSE CHOOSE i \in hits : \A j \in hits : i <= j

(* strrchrW(root, c): index of the last c of the string at copy + root, or -1 *)
strrchrFrom(copy, root, c) ==
    LET hits == {i \in root..(root + strlenFrom(copy, root) - 1) : Rd(copy, i) = c}
    IN  IF hits = {} THEN -1 ELSE CHOOSE i \in hits : \A j \in hits : i >= j

(* the backup point for /../: mp, replaced by mp2 when mp2 exists and lies before it *)
BackupPoint(copy, root) ==
    LET mp  == strrchrFrom(copy, root, SLASH)
        mp2 == strrchrFrom(copy, root, BSLASH)
    IN  IF mp2 # -1 /\ (mp = -1 \/ mp2 < mp) THEN mp2 ELSE mp

(* the loop over the dots that follow a copied slash *)
RECURSIVE DotLoop(_, _, _)
DotLoop(cx, root, m) ==
    LET c1 == Rd(cx.url, m.wk1 + 1)
        c2 == Rd(cx.url, m.wk1 + 2)
    IN  IF Rd(cx.url, m.wk1) # DOT THEN m
        ELSE IF c1 = SLASH \/ c1 = BSLASH THEN DotLoop(cx, root, [m EXCEPT !.wk1 = m.wk1 + 2])
        ELSE IF c1 = DOT /\ c2 \in {SLASH, BSLASH, QMARK, HASH, NUL}
             THEN LET Backed(cut, mp) ==
                          IF mp # -1
                          THEN DotLoop(cx, root,
                                   [m EXCEPT !.copy = cut, !.wk2 = mp + 1,
                                             !.wk1 = IF c2 # SLASH /\ c2 # BSLASH
                                                     THEN m.wk1 + 2 ELSE m.wk1 + 3])
                          ELSE [m EXCEPT !.copy = Wr(cut, m.wk2 - 1, cx.slash)]
                      Cut(cut) == Backed(cut, BackupPoint(cut, root))
                  IN  Cut(Wr(m.copy, m.wk2 - 1, NUL))
        ELSE m

(* state 6: segment by segment from the root location on *)
RECURSIVE SimplifyLoop(_, _, _)
SimplifyLoop(cx, root, m) ==
    IF Rd(cx.url, m.wk1) = NUL THEN m
    ELSE
      LET Last(nWkLen) ==
              [m EXCEPT !.copy = WrSeq(m.copy, m.wk2,
                                       SubSeq(cx.url, m.wk1 + 1, m.wk1 + nWkLen) \o <<NUL>>),
                        !.wk1 = m.wk1 + nWkLen, !.wk2 = m.wk2 + nWkLen]
          Segment(mp) ==
              IF mp = -1 THEN Last(strlenFrom(cx.url, m.wk1))
              ELSE SimplifyLoop(cx, root,
                       DotLoop(cx, root,
                           [m EXCEPT !.copy = Wr(WrSeq(m.copy, m.wk2,
                                                       SubSeq(cx.url, m.wk1 + 1, mp)),
                                                 m.wk2 + (mp - m.wk1),
                                                 SlashOr(cx, Rd(cx.url, mp))),
                                     !.wk1 = mp + 1, !.wk2 = m.wk2 + (mp - m.wk1) + 1]))
      IN  Segment(FirstSlash(cx.url, m.wk1))

(* one pass of the switch, m.wk1 not at the terminator *)
CanonState(cx, m) ==
    CASE m.state = 0 ->
           IF ~isalnumW(Rd(cx.url, m.wk1)) THEN [m EXCEPT !.state = 3]
           ELSE LET a == Copy1(cx, m) IN
                IF ~isalnumW(Rd(cx.url, a.wk1)) THEN [a EXCEPT !.state = 3]
                ELSE [Copy1(cx, a) EXCEPT !.state = 1]
      [] m.state = 1 ->
           IF Rd(cx.url, m.wk1) = COLON THEN [Copy1(cx, m) EXCEPT !.state = 2]
           ELSE Copy1(cx, m)
      [] m.state = 2 ->
           LET a == Copy1(cx, m) IN
           IF Rd(cx.url, a.wk1) # SLASH THEN [a EXCEPT !.state = 6]
           ELSE [AfterSlashSlash(cx, Copy1(cx, a)) EXCEPT !.state = 4]
      [] m.state = 3 -> CopyRest(cx, m)
      [] m.state = 4 ->
           IF ~IsHostUnit(Rd(cx.url, m.wk1)) THEN [m EXCEPT !.state = 3]
           ELSE LET a == CopyHost(cx, m) IN
                IF Rd(cx.url, a.wk1) = NUL
                THEN [Put(a, SlashOr(cx, SLASH)) EXCEPT !.state = 5]
                ELSE [a EXCEPT !.state = 5]
      [] m.state = 5 ->
           IF Rd(cx.url, m.wk1) # SLASH /\ Rd(cx.url, m.wk1) # BSLASH
           THEN [m EXCEPT !.state = 3]
           ELSE [CopySlashes(cx, m) EXCEPT !.state = 6]
      [] m.state = 6 ->
           IF URL_DONT_SIMPLIFY \in cx.flags THEN [m EXCEPT !.state = 3]
           ELSE SimplifyLoop(cx, m.wk2 - 1, m)

(* the scan: one state per turn, url_copy terminated after each *)
RECURSIVE CanonScan(_, _)
CanonScan(cx, m) ==
    IF Rd(cx.url, m.wk1) = NUL THEN m
    ELSE LET Terminated(a) == [a EXCEPT !.copy = Wr(a.copy, a.wk2, NUL)]
         IN  CanonScan(cx, Terminated(CanonState(cx, m)))

(* "chop" the units <= ' ' from the end of url_copy *)
RECURSIVE TrimEnd(_, _)
TrimEnd(copy, nLen) ==
    IF nLen > 0 /\ Rd(copy, nLen - 1) <= SPACE THEN TrimEnd(Wr(copy, nLen - 1, NUL), nLen - 1)
    ELSE copy

(* canonicalized is the caller's buffer, canonicalized_len the capacity stated, *)
(* junk what fresh heap blocks hold, past the number of junk units that follow  *)
(* the block of url_copy in memory before a NUL does, avail the allocations the *)
(* heap still serves; oob: url_copy was never terminated and lstrlenW ran past  *)
(* the end of its block                                                         *)
UrlCanonicalizeW(src_url, canonicalized, canonicalized_len, flags, junk, past, avail) ==
    IF src_url = NULL \/ canonicalized = NULL \/ canonicalized_len = 0
    THEN [hr |-> E_INVALIDARG, canonicalized |-> canonicalized,
          canonicalized_len |-> canonicalized_len, oob |-> FALSE]
    ELSE IF At(src_url, 0) = NUL
    THEN [hr |-> S_OK, canonicalized |-> Wr(canonicalized, 0, NUL),
          canonicalized_len |-> canonicalized_len, oob |-> FALSE]
    ELSE IF avail < 2
    THEN [hr |-> E_OUTOFMEMORY, canonicalized |-> canonicalized,
          canonicalized_len |-> canonicalized_len, oob |-> FALSE]
    ELSE
      LET Stored(cx_flags, plain, oob) ==
              LET escape_flags == cx_flags \cap {URL_ESCAPE_UNSAFE, URL_ESCAPE_SPACES_ONLY,
                                                 URL_ESCAPE_PERCENT,
                                                 URL_DONT_ESCAPE_EXTRA_INFO,
                                                 URL_ESCAPE_SEGMENT_ONLY}
                  Escaped(e) == [hr |-> e.hr, canonicalized |-> e.escaped,
                                 canonicalized_len |-> e.escaped_len, oob |-> oob]
              IN  IF escape_flags # {}
                  THEN Escaped(UrlEscapeW(Str(plain), canonicalized, canonicalized_len,
                                          escape_flags \ {URL_ESCAPE_UNSAFE}, avail - 2))
                  ELSE IF strlenW(plain) < canonicalized_len
                       THEN [hr |-> S_OK,
                             canonicalized |-> strcpyAt(canonicalized, 0, Str(plain)),
                             canonicalized_len |-> strlenW(plain), oob |-> oob]
                       ELSE [hr |-> E_POINTER, canonicalized |-> canonicalized,
                             canonicalized_len |-> strlenW(plain) + 1, oob |-> oob]
          Trimmed(url, nUnits, cx_flags, trimmed, oob) ==
              Stored(cx_flags,
                     IF URL_UNESCAPE \in cx_flags
                        \/ (URL_FILE_USE_PATHURL \in cx_flags /\ nUnits >= Len(wszFile)
                            /\ HasPrefix(url, wszFile))
                     THEN UrlUnescapeW(trimmed, NULL, strlenW(trimmed),
                                       {URL_UNESCAPE_INPLACE}).url
                     ELSE trimmed,
                     oob)
          Read(url, nUnits, cx_flags, read, oob) ==
              Trimmed(url, nUnits, cx_flags, TrimEnd(read, strlenW(read)), oob)
          Measured(url, nUnits, cx_flags, scanned, oob) ==
              Read(url, nUnits, cx_flags,
                   IF oob THEN scanned \o Rep(junk, past) \o <<NUL>> ELSE scanned, oob)
          Scanned(url, nUnits, cx_flags, scanned) ==
              Measured(url, nUnits, cx_flags, scanned,
                       \A i \in 1..Len(scanned) : scanned[i] # NUL)
          Started(url, nUnits, start) ==
              Scanned(url, nUnits, start.cx.flags, CanonScan(start.cx, start.m).copy)
          Counted(url, nUnits) == Started(url, nUnits, CanonStart(url, nUnits, flags, junk))
          Stripped(url) == Counted(url, strlenW(url) + 1)
      IN  Stripped(StripTabs(src_url, junk))

-----------------------------------------------------------------------------
(* Callers of the PathCch* wrappers *)

MaxSize == 6

(* the capacities a caller states: 0..MaxSize and one above the ceiling *)
CchSizes == 0..MaxSize

OversizedCch == PATHCCH_MAX_CCH + 1

(* the caller's buffers are allocations of CchBufLen units *)
CchBufLen == MaxSize + 2

(* a buffer holding the string s, stale z in the units after its terminator *)
CallerBuffer(s) ==
    [i \in 1..CchBufLen |-> IF i <= Len(s) THEN s[i] ELSE IF i = Len(s) + 1 THEN NUL ELSE 122]

(* what out holds before the call: the string zz *)
PriorOut == CallerBuffer(<<122, 122>>)

(* "", a, a:, \a, a\.., a:\a, \\a\b, \\?\a:\a and the null pointer *)
CchPaths ==
    { << >>, <<97>>, <<97, COLON>>, <<BSLASH, 97>>, <<97, BSLASH, DOT, DOT>>,
      <<97, COLON, BSLASH, 97>>, <<BSLASH, BSLASH, 97, BSLASH, 98>>,
      prefix_disk \o <<97, COLON, BSLASH, 97>>, NULL }

CchFlagSets ==
    { {}, {PATHCCH_ENSURE_TRAILING_SLASH}, {PATHCCH_ENSURE_IS_EXTENDED_LENGTH_PATH},
      {PATHCCH_FORCE_ENABLE_LONG_NAME_PROCESS} }

(* junk units of a fresh heap block; allocations the heap still serves *)
HeapJunk == {NUL, 97, BSLASH}

HeapAvail == 0..3

CallPathCchCanonicalizeEx ==
    /\ op = "idle"
    /\ \E in \in CchPaths, size \in CchSizes, flags \in CchFlagSets, avail \in HeapAvail :
          /\ arg' = [out |-> PriorOut, size |-> size, in |-> in, flags |-> flags,
                     avail |-> avail]
          /\ res' = PathCchCanonicalizeEx(PriorOut, size, in, flags, avail)
    /\ op' = "PathCchCanonicalizeEx"
    /\ prev' = NoCall

CallPathCchCombineEx ==
    /\ op = "idle"
    /\ \E path1 \in CchPaths, path2 \in CchPaths, size \in CchSizes \cup {OversizedCch},
          flags \in CchFlagSets, junk \in HeapJunk, avail \in HeapAvail :
          /\ arg' = [out |-> PriorOut, size |-> size, path1 |-> path1, path2 |-> path2,
                     flags |-> flags, junk |-> junk, avail |-> avail]
          /\ res' = PathCchCombineEx(PriorOut, size, path1, path2, flags, junk, avail)
    /\ op' = "PathCchCombineEx"
    /\ prev' = NoCall

CallPathCchAppendEx ==
    /\ op = "idle"
    /\ \E p1 \in CchPaths, path2 \in CchPaths, size \in CchSizes \cup {OversizedCch},
          flags \in CchFlagSets, junk \in HeapJunk, avail \in HeapAvail :
          LET path1 == IF p1 = NULL THEN NULL ELSE CallerBuffer(p1) IN
          /\ Len(p1) < CchBufLen
          /\ arg' = [path1 |-> path1, size |-> size, path2 |-> path2,
                     flags |-> flags, junk |-> junk, avail |-> avail]
          /\ res' = PathCchAppendEx(path1, size, path2, flags, junk, avail)
    /\ op' = "PathCchAppendEx"
    /\ prev' = NoCall

NextCch ==
    \/ CallPathCchCanonicalizeEx
    \/ CallPathCchCombineEx
    \/ CallPathCchAppendEx
    \/ Return

SpecCch == Init /\ [][NextCch]_vars

-----------------------------------------------------------------------------
(* Callers of the URL functions *)

MaxBody == 2

MaxUrlSegs == 2

MaxCap == 1

(* a capacity no result of the inputs below comes near *)
UrlRoom == 32

(* the capacities a caller states *)
UrlCaps == (0..MaxCap) \cup {UrlRoom}

(* the caller's output buffer for a stated capacity: stale Z, two units to spare *)
UrlBuffer(cap) == Rep(90, cap + 2)

(* "", http:, file:, ab:, mailto: *)
UrlPrefixes ==
    { << >>, wszHttp, wszFile, <<97, 98, 58>>, <<109, 97, 105, 108, 116, 111, 58>> }

(* / \ ? # space a *)
UrlUnits == {SLASH, BSLASH, QMARK, HASH, SPACE, 97}

(* file://localhost/a, file://localhost\a, http://h/a b?c d, a%41, e-acute, a%,  *)
(* <tab><del><y-diaeresis>&<, ab:a&b#c&d, mailto:a b?c d#e f and the null pointer *)
EscapeExtras ==
    { wszFile \o <<SLASH, SLASH>> \o wszLocalhost \o <<SLASH, 97>>,
      wszFile \o <<SLASH, SLASH>> \o wszLocalhost \o <<BSLASH, 97>>,
      wszHttp \o <<SLASH, SLASH, 104, SLASH, 97, SPACE, 98, QMARK, 99, SPACE, 100>>,
      <<97, PCT, 52, 49>>, <<233>>, <<97, PCT>>,
      <<TAB, 127, 255, 38, 60>>,
      <<97, 98, 58, 97, 38, 98, HASH, 99, 38, 100>>,
      <<109, 97, 105, 108, 116, 111, 58, 97, SPACE, 98, QMARK, 99, SPACE, 100, HASH, 101,
        SPACE, 102>>,
      NULL }

EscapeUrls ==
    {pre \o body : pre \in UrlPrefixes, body \in Strings(UrlUnits, MaxBody)} \cup EscapeExtras

EscapeFlagSets ==
    { {}, {URL_ESCAPE_SPACES_ONLY}, {URL_DONT_ESCAPE_EXTRA_INFO},
      {URL_ESCAPE_SPACES_ONLY, URL_DONT_ESCAPE_EXTRA_INFO}, {URL_ESCAPE_SEGMENT_ONLY},
      {URL_ESCAPE_PERCENT}, {URL_ESCAPE_AS_UTF8} }

(* % 0 a z ? *)
UnescapeUnits == {PCT, 48, 97, 122, QMARK}

(* %41?%42, a#%41, %4A, %aF, %4g, %%41, %00a *)
UnescapeExtras ==
    { <<PCT, 52, 49, QMARK, PCT, 52, 50>>, <<97, HASH, PCT, 52, 49>>, <<PCT, 52, 65>>,
      <<PCT, 97, 70>>, <<PCT, 52, 103>>, <<PCT, PCT, 52, 49>>, <<PCT, 48, 48, 97>> }

UnescapeUrls == Strings(UnescapeUnits, MaxBody + 1) \cup UnescapeExtras \cup {NULL}

UnescapeFlagSets ==
    { {}, {URL_DONT_UNESCAPE_EXTRA_INFO}, {URL_UNESCAPE_INPLACE},
      {URL_UNESCAPE_INPLACE, URL_DONT_UNESCAPE_EXTRA_INFO} }

(* the segments a, . and .. *)
UrlSegments == {<<97>>, <<DOT>>, <<DOT, DOT>>}

RECURSIVE JoinedBy(_, _)
JoinedBy(segs, sep) ==
    IF segs = << >> THEN << >> ELSE <<sep>> \o segs[1] \o JoinedBy(Tail(segs), sep)

(* http://h, HTTP://H, file://, ab://h, a: and no authority at all *)
UrlAuthorities ==
    { wszHttp \o <<SLASH, SLASH, 104>>, <<72, 84, 84, 80, 58, SLASH, SLASH, 72>>,
      wszFile \o <<SLASH, SLASH>>, <<97, 98, 58, SLASH, SLASH, 104>>, <<97, COLON>>, << >> }

(* HTTP://A:B@Host:80/p/../q *)
UserInfoUrl ==
    <<72, 84, 84, 80, 58, 47, 47, 65, 58, 66, 64, 72, 111, 115, 116, 58, 56, 48,
      47, 112, 47, 46, 46, 47, 113>>

(* a tab alone, a<tab>b, the empty string, the null pointer, http://h/a/../../b, *)
(* http://h/a b, file:///a b and a:\a b                                       *)
(* a:\a?a\a, a:\a#< and a:\a followed by a tab and a space                  *)
DrivePathExtras ==
    { <<97, COLON, BSLASH, 97, QMARK, 97, BSLASH, 97>>,
      <<97, COLON, BSLASH, 97, HASH, 60>>,
      <<97, COLON, BSLASH, 97, TAB, SPACE>> }

(* ab://h/a/../../a, ftp://h/a/../.. and file:///a/../../a *)
ClimbingUrls ==
    { <<97, 98, 58, SLASH, SLASH, 104, SLASH, 97, SLASH, DOT, DOT, SLASH, DOT, DOT, SLASH, 97>>,
      <<102, 116, 112, 58, SLASH, SLASH, 104, SLASH, 97, SLASH, DOT, DOT, SLASH, DOT, DOT>>,
      wszFilePrefix \o <<97, SLASH, DOT, DOT, SLASH, DOT, DOT, SLASH, 97>> }

CanonExtras ==
    ClimbingUrls \cup
    { UserInfoUrl, <<TAB>>, <<97, TAB, 98>>, << >>, NULL,
      wszHttp \o <<SLASH, SLASH, 104, SLASH, 97, SLASH, DOT, DOT, SLASH, DOT, DOT, SLASH, 98>>,
      wszHttp \o <<SLASH, SLASH, 104, SLASH, 97, SPACE, 98>>,
      wszFilePrefix \o <<97, SPACE, 98>>,
      <<97, COLON, BSLASH, 97, SPACE, 98>> } \cup DrivePathExtras

(* an authority followed by at most MaxUrlSegs segments, each after a / or each after a \ *)
CanonUrls ==
    {auth \o JoinedBy(segs, sep) :
        auth \in UrlAuthorities, segs \in Strings(UrlSegments, MaxUrlSegs),
        sep \in {SLASH, BSLASH}} \cup CanonExtras

CanonFlagSets ==
    { {}, {URL_ESCAPE_UNSAFE}, {URL_FILE_USE_PATHURL}, {URL_DONT_SIMPLIFY},
      {URL_UNESCAPE, URL_ESCAPE_SPACES_ONLY} }

(* what the scratch blocks of UrlCanonicalizeW hold: zeroes, or colons with *)
(* a NUL right after the block or one more colon before it                  *)
UrlHeaps ==
    { [junk |-> NUL, past |-> 0], [junk |-> COLON, past |-> 0], [junk |-> COLON, past |-> 1] }

(* the heap a second call meets: what the scratch blocks hold is new *)
FreshHeaps ==
    IF op = "UrlCanonicalizeW" THEN UrlHeaps ELSE {[junk |-> arg.junk, past |-> arg.past]}

(* one call of a URL function on the arguments a *)
UrlCall(o, a) ==
    LET Escaped(r) ==
            [hr |-> r.hr, out |-> r.escaped, len |-> r.escaped_len, url |-> a.url]
        Unescaped(r) ==
            [hr |-> r.hr, out |-> r.unescaped, len |-> r.unescaped_len, url |-> r.url]
        Canonicalized(r) ==
            [hr |-> r.hr, out |-> r.canonicalized, len |-> r.canonicalized_len, url |-> a.url]
    IN  CASE o = "UrlEscapeW" ->
               Escaped(UrlEscapeW(a.url, a.out, a.len, a.flags, a.avail))
          [] o = "UrlUnescapeW" ->
               Unescaped(UrlUnescapeW(a.url, a.out, a.len, a.flags))
          [] o = "UrlCanonicalizeW" ->
               Canonicalized(UrlCanonicalizeW(a.url, a.out, a.len, a.flags, a.junk, a.past,
                                              a.avail))

CallUrlEscapeW ==
    /\ op = "idle"
    /\ \E url \in EscapeUrls, flags \in EscapeFlagSets, cap \in UrlCaps, avail \in 0..1 :
          LET a == [url |-> url, out |-> UrlBuffer(cap), len |-> cap, flags |-> flags,
                    junk |-> NUL, past |-> 0, avail |-> avail]
          IN  arg' = a /\ res' = UrlCall("UrlEscapeW", a)
    /\ op' = "UrlEscapeW"
    /\ prev' = NoCall

(* url is the caller's buffer holding the string and its terminator *)
CallUrlUnescapeW ==
    /\ op = "idle"
    /\ \E url \in UnescapeUrls, flags \in UnescapeFlagSets, cap \in UrlCaps :
          LET a == [url |-> IF url = NULL THEN NULL ELSE url \o <<NUL>>,
                    out |-> UrlBuffer(cap), len |-> cap, flags |-> flags,
                    junk |-> NUL, past |-> 0, avail |-> 0]
          IN  arg' = a /\ res' = UrlCall("UrlUnescapeW", a)
    /\ op' = "UrlUnescapeW"
    /\ prev' = NoCall

(* the escaped string is unescaped into a buffer with room, flags as passed to UrlEscapeW *)
CallUrlUnescapeWOfEscaped ==
    /\ op = "UrlEscapeW"
    /\ prev.op = "none"
    /\ res.hr = S_OK
    /\ LET a == [url |-> Str(res.out) \o <<NUL>>, out |-> UrlBuffer(UrlRoom), len |-> UrlRoom,
                 flags |-> arg.flags, junk |-> NUL, past |-> 0, avail |-> 0]
       IN  arg' = a /\ res' = UrlCall("UrlUnescapeW", a)
    /\ prev' = [op |-> op, arg |-> arg, res |-> res]
    /\ op' = "UrlUnescapeW"

CallUrlCanonicalizeW ==
    /\ op = "idle"
    /\ \E url \in CanonUrls, flags \in CanonFlagSets, cap \in UrlCaps,
          heap \in UrlHeaps, avail \in 2..3 :
          LET a == [url |-> url, out |-> UrlBuffer(cap), len |-> cap, flags |-> flags,
                    junk |-> heap.junk, past |-> heap.past, avail |-> avail]
          IN  arg' = a /\ res' = UrlCall("UrlCanonicalizeW", a)
    /\ op' = "UrlCanonicalizeW"
    /\ prev' = NoCall

(* after E_POINTER the caller calls again with a buffer of the capacity reported *)
RetryWithReportedCapacity ==
    /\ op \in {"UrlEscapeW", "UrlUnescapeW", "UrlCanonicalizeW"}
    /\ prev.op = "none"
    /\ res.hr = E_POINTER
    /\ \E heap \in FreshHeaps :
          LET a == [arg EXCEPT !.out = UrlBuffer(res.len), !.len = res.len,
                               !.junk = heap.junk, !.past = heap.past]
          IN  arg' = a /\ res' = UrlCall(op, a)
    /\ prev' = [op |-> op, arg |-> arg, res |-> res]
    /\ op' = op

(* ... or with one unit less than reported *)
RetryOneShort ==
    /\ op \in {"UrlEscapeW", "UrlUnescapeW", "UrlCanonicalizeW"}
    /\ prev.op = "none"
    /\ res.hr = E_POINTER
    /\ res.len > 1
    /\ \E heap \in FreshHeaps :
          LET a == [arg EXCEPT !.out = UrlBuffer(res.len - 1), !.len = res.len - 1,
                               !.junk = heap.junk, !.past = heap.past]
          IN  arg' = a /\ res' = UrlCall(op, a)
    /\ prev' = [op |-> op, arg |-> arg, res |-> res]
    /\ op' = op

NextUrl ==
    \/ CallUrlEscapeW
    \/ CallUrlUnescapeW
    \/ CallUrlUnescapeWOfEscaped
    \/ CallUrlCanonicalizeW
    \/ RetryWithReportedCapacity
    \/ RetryOneShort
    \/ Return

SpecUrl == Init /\ [][NextUrl]_vars

-----------------------------------------------------------------------------
(* Vocabulary of the URL properties *)

UrlOps == {"UrlEscapeW", "UrlUnescapeW", "UrlCanonicalizeW"}

(* the code units that occur in s *)
Units(s) == {s[i] : i \in 1..Len(s)}

(* UrlEscapeW has succeeded and UrlUnescapeW has been called on its result *)
RoundTripDone == op = "UrlUnescapeW" /\ prev.op = "UrlEscapeW"

(* the call in arg, made with room for every result *)
WithRoom == UrlCall(op, [arg EXCEPT !.out = UrlBuffer(UrlRoom), !.len = UrlRoom])

(* a call of one of the three functions, UrlUnescapeW not in place *)
ResultCall ==
    /\ op \in UrlOps
    /\ (op = "UrlUnescapeW" => URL_UNESCAPE_INPLACE \notin arg.flags)

(* L, given the outcome r of the call with room: the length r reports;   *)
(* UrlCanonicalizeW of "" stores "" and reports nothing                  *)
ResultLength(r) == IF op = "UrlCanonicalizeW" /\ arg.url = << >> THEN 0 ELSE r.len

(* the call has a result of length L and its capacity is below L + 1 *)
LacksRoom ==
    /\ ResultCall
    /\ arg.len < UrlRoom
    /\ LET r == WithRoom IN r.hr = S_OK /\ arg.len < ResultLength(r) + 1

(* the call reports that it lacks room and L + 1 as the capacity it needs *)
ReportsRequired ==
    LET r == WithRoom IN res.hr = E_POINTER /\ res.len = ResultLength(r) + 1

(* the call in arg repeats the previous one with the capacity that one reported *)
Retried ==
    /\ ResultCall
    /\ prev.op = op
    /\ prev.res.hr = E_POINTER
    /\ arg.len = prev.res.len

-----------------------------------------------------------------------------
(* C6: UrlCanonicalizeW of HTTP://A:B@Host:80/p/../q without flags succeeds  *)
(* with http://A:B@Host:80/q: scheme in lower case, authority kept, path     *)
(* collapsed.                                                                *)

(* http://A:B@Host:80/q *)
UserInfoCanonical ==
    <<104, 116, 116, 112, 58, 47, 47, 65, 58, 66, 64, 72, 111, 115, 116, 58, 56, 48, 47, 113>>

C6_UserInfoUrlCanonicalized ==
    (op = "UrlCanonicalizeW" /\ arg.url = UserInfoUrl /\ arg.flags = {} /\ arg.len = UrlRoom)
        => /\ res.hr = S_OK
           /\ Str(res.out) = UserInfoCanonical
           /\ res.len = Len(UserInfoCanonical)

-----------------------------------------------------------------------------
(* C7: for every URL u without a % (every scheme, also with \, #, ? or       *)
(* repeated slashes after the scheme), UrlEscapeW(u, flags) followed by      *)
(* UrlUnescapeW of the escaped string with the same flags returns u.         *)

C7_RoundTripEveryUrl ==
    (RoundTripDone /\ PCT \notin Units(prev.arg.url))
        => res.hr = S_OK /\ Str(res.out) = prev.arg.url

(* URL_ESCAPE_SEGMENT_ONLY is passed and URL_ESCAPE_SPACES_ONLY does not reset it *)
SegmentOnly(f) == URL_ESCAPE_SEGMENT_ONLY \in f /\ URL_ESCAPE_SPACES_ONLY \notin f

(* an http, https or file URL with a \ in it *)
HasFoldedBackslash(u, f) ==
    /\ ~SegmentOnly(f)
    /\ ParseURLW(u).nScheme \in {URL_SCHEME_HTTP, URL_SCHEME_HTTPS, URL_SCHEME_FILE}
    /\ BSLASH \in Units(u)

(* a file URL whose scheme is followed by one / or by more than three, or by *)
(* //localhost                                                               *)
HasFoldedSlashes(u, f) ==
    LET start == ParseURLW(u).pszSuffix
        run   == SkipUnits(u, start, SLASH) - start
    IN  /\ ~SegmentOnly(f)
        /\ ParseURLW(u).nScheme = URL_SCHEME_FILE
        /\ \/ run \notin {0, 2, 3}
           \/ run = 2 /\ HasPrefixI(From(u, start + 2), wszLocalhost)

(* both URL_ESCAPE_SPACES_ONLY and URL_DONT_ESCAPE_EXTRA_INFO, and a space after a ? or # *)
HasSpaceInExtraInfo(u, f) ==
    /\ {URL_ESCAPE_SPACES_ONLY, URL_DONT_ESCAPE_EXTRA_INFO} \subseteq f
    /\ \E i, j \in 1..Len(u) : i < j /\ u[i] \in {QMARK, HASH} /\ u[j] = SPACE

(* URL_ESCAPE_AS_UTF8 in effect and a code unit from 0x80 on *)
HasUtf8Escapes(u, f) ==
    /\ URL_ESCAPE_AS_UTF8 \in f
    /\ URL_ESCAPE_SPACES_ONLY \notin f
    /\ \E c \in Units(u) : c >= 128

(* C7 as amended: the round trip returns u when u has no % and UrlEscapeW    *)
(* neither folds a \ or a slash run of u nor escapes what UrlUnescapeW with  *)
(* the same flags leaves alone.                                              *)
C7_RoundTrip ==
    (/\ RoundTripDone
     /\ PCT \notin Units(prev.arg.url)
     /\ ~HasFoldedBackslash(prev.arg.url, prev.arg.flags)
     /\ ~HasFoldedSlashes(prev.arg.url, prev.arg.flags)
     /\ ~HasSpaceInExtraInfo(prev.arg.url, prev.arg.flags)
     /\ ~HasUtf8Escapes(prev.arg.url, prev.arg.flags))
        => res.hr = S_OK /\ Str(res.out) = prev.arg.url

(* an http URL with a ? and a space was escaped into another string and came back *)
C7_Witness ==
    /\ RoundTripDone
    /\ ParseURLW(prev.arg.url).nScheme = URL_SCHEME_HTTP
    /\ {QMARK, SPACE} \subseteq Units(prev.arg.url)
    /\ {PCT, BSLASH} \cap Units(prev.arg.url) = {}
    /\ ~HasSpaceInExtraInfo(prev.arg.url, prev.arg.flags)
    /\ Str(prev.res.out) # prev.arg.url
    /\ res.hr = S_OK
    /\ Str(res.out) = prev.arg.url

-----------------------------------------------------------------------------
(* C8: when the result of UrlEscapeW, UrlUnescapeW (not in place) or         *)
(* UrlCanonicalizeW has length L and the capacity C is below L + 1, the call *)
(* returns E_POINTER and reports L + 1; the same call with capacity L + 1    *)
(* succeeds and reports L.                                                   *)

TabsOnly == op = "UrlCanonicalizeW" /\ arg.url # NULL /\ Units(arg.url) = {TAB}

-----------------------------------------------------------------------------
(* C9: when PathCchCanonicalizeEx or PathCchAppendEx fails, the caller's     *)
(* buffer holds exactly what it held before the call; when PathCchCombineEx  *)
(* fails after its argument check, out holds the empty string; after a       *)
(* success the buffer holds the whole result, never a part of it.            *)

(* the path the allocating function under the wrapper returns, heap permitting *)
WholeResult ==
    CASE op = "PathCchCanonicalizeEx" ->
            PathAllocCanonicalize(arg.in, arg.flags).path_out
      [] op = "PathCchCombineEx" ->
            PathAllocCombine(arg.path1, arg.path2, arg.flags, arg.junk, 2).path_out
      [] op = "PathCchAppendEx" ->
            PathAllocCombine(Str(arg.path1), AppendedPath(arg.path2), arg.flags, arg.junk, 2).path_out

C9_NoPartialResult ==
    /\ (op = "PathCchCanonicalizeEx" /\ FAILED(res.hr)) => res.out = arg.out
    /\ (op = "PathCchCanonicalizeEx" /\ SUCCEEDED(res.hr)) =>
          Str(res.out) \in {WholeResult, WholeResult \o <<BSLASH>>}
    /\ (op = "PathCchAppendEx" /\ FAILED(res.hr)) => res.path1 = arg.path1
    /\ (op = "PathCchAppendEx" /\ SUCCEEDED(res.hr)) => Str(res.path1) = WholeResult
    /\ (op = "PathCchCombineEx" /\ FAILED(res.hr)) =>
          IF arg.size = 0 \/ arg.size > PATHCCH_MAX_CCH
          THEN res.out = arg.out
          ELSE Str(res.out) = << >>
    /\ (op = "PathCchCombineEx" /\ SUCCEEDED(res.hr)) => Str(res.out) = WholeResult

(* PathCchAppendEx has failed for lack of room on a non-empty path1 *)
C9_Witness ==
    /\ op = "PathCchAppendEx"
    /\ res.hr = STRSAFE_E_INSUFFICIENT_BUFFER
    /\ Str(arg.path1) # << >>
    /\ res.path1 = arg.path1

-----------------------------------------------------------------------------
(* C10: PathAllocCanonicalize rejects with E_INVALIDARG and a NULL result    *)
(* exactly the flag sets holding ForceEnable and ForceDisable together,      *)
(* EnsureExtendedLengthPath and AllowLongPaths together, or a Force* flag    *)
(* without AllowLongPaths; every other flag set is accepted and acts as      *)
(* passed: EnsureTrailingSlash ends the result in \, EnsureExtendedLengthPath *)
(* prefixes a drive path with \\?\.                                          *)

RejectedFlags(f) ==
    \/ {PATHCCH_FORCE_ENABLE_LONG_NAME_PROCESS, PATHCCH_FORCE_DISABLE_LONG_NAME_PROCESS} \subseteq f
    \/ {PATHCCH_ENSURE_IS_EXTENDED_LENGTH_PATH, PATHCCH_ALLOW_LONG_PATHS} \subseteq f
    \/ (PATHCCH_FORCE_ENABLE_LONG_NAME_PROCESS \in f /\ PATHCCH_ALLOW_LONG_PATHS \notin f)
    \/ (PATHCCH_FORCE_DISABLE_LONG_NAME_PROCESS \in f /\ PATHCCH_ALLOW_LONG_PATHS \notin f)

C10_FlagValidation ==
    (op = "PathAllocCanonicalize" /\ arg.path_in # NULL) =>
        IF RejectedFlags(arg.flags)
        THEN res.hr = E_INVALIDARG /\ res.path_out = NULL
        ELSE /\ res.hr = S_OK
             /\ res.path_out # NULL
             /\ (PATHCCH_ENSURE_TRAILING_SLASH \in arg.flags
                    => At(res.path_out, Len(res.path_out) - 1) = BSLASH)
             /\ (PATHCCH_ENSURE_IS_EXTENDED_LENGTH_PATH \in arg.flags
                  /\ isalphaW(At(arg.path_in, 0)) /\ At(arg.path_in, 1) = COLON
                    => HasPrefix(res.path_out, prefix_disk))

(* a call with EnsureExtendedLengthPath and AllowLongPaths has been rejected *)
C10_Witness ==
    /\ op = "PathAllocCanonicalize"
    /\ arg.path_in # NULL
    /\ arg.flags = {PATHCCH_ENSURE_IS_EXTENDED_LENGTH_PATH, PATHCCH_ALLOW_LONG_PATHS}
    /\ res.hr = E_INVALIDARG
    /\ res.path_out = NULL

-----------------------------------------------------------------------------
(* Calls on inputs around the two length ceilings *)

(* how far below and above the short ceiling the input lengths reach *)
MaxOver == 1

(* no root, a:, a:\, \\, \\?\a:\ *)
LengthRoots ==
    {<< >>, <<97, COLON>>, <<97, COLON, BSLASH>>, <<BSLASH, BSLASH>>,
     prefix_disk \o <<97, COLON, BSLASH>>}

(* lengths from below MAX_PATH to above MAX_PATH plus the \\?\ prefix *)
ShortCeilingLengths == (MAX_PATH - 1 - MaxOver)..(MAX_PATH + Len(prefix_disk) + MaxOver)

(* the last length below PATHCCH_MAX_CCH and the first one not below it *)
LongCeilingLengths == {PATHCCH_MAX_CCH - 1, PATHCCH_MAX_CCH}

(* a path of n code units: root followed by one segment of a's *)
LongPath(root, n) == root \o Rep(97, n - Len(root))

LongFlagSets ==
    {{}, {PATHCCH_ALLOW_LONG_PATHS}, {PATHCCH_ENSURE_IS_EXTENDED_LENGTH_PATH},
     {PATHCCH_ALLOW_LONG_PATHS, PATHCCH_FORCE_ENABLE_LONG_NAME_PROCESS}}

LengthInputs ==
    ({LongPath(root, n) : root \in LengthRoots, n \in ShortCeilingLengths}
         \X SUBSET PathcchFlags)
    \cup ({LongPath(root, n) : root \in {<< >>, <<97, COLON, BSLASH>>},
                               n \in LongCeilingLengths}
         \X LongFlagSets)

CallPathAllocCanonicalizeLong ==
    /\ op = "idle"
    /\ \E in \in LengthInputs :
          /\ arg' = [path_in |-> in[1], flags |-> in[2]]
          /\ res' = PathAllocCanonicalize(in[1], in[2])
    /\ op' = "PathAllocCanonicalize"
    /\ prev' = NoCall

NextLong ==
    \/ CallPathAllocCanonicalizeLong
    \/ Return

SpecLong == Init /\ [][NextLong]_vars

-----------------------------------------------------------------------------
(* C11: with a valid flag set and a non-null input, PathAllocCanonicalize  *)
(* returns ERROR_FILENAME_EXCED_RANGE with a null *path_out exactly when   *)
(* the input length plus the NUL exceeds MAX_PATH and neither              *)
(* AllowLongPaths nor EnsureExtendedLengthPath is set, or exceeds          *)
(* PATHCCH_MAX_CCH whatever the flags; no shorter input is rejected for    *)
(* its length.                                                             *)
C11_LengthCeiling ==
    (op = "PathAllocCanonicalize" /\ arg.path_in # NULL /\ ~InvalidFlags(arg.flags)) =>
        /\ (res.hr = E_FILENAME_EXCED_RANGE /\ res.path_out = NULL)
             <=> \/ /\ Len(arg.path_in) + 1 > MAX_PATH
                    /\ PATHCCH_ALLOW_LONG_PATHS \notin arg.flags
                    /\ PATHCCH_ENSURE_IS_EXTENDED_LENGTH_PATH \notin arg.flags
                 \/ Len(arg.path_in) + 1 > PATHCCH_MAX_CCH
        /\ res.hr # E_FILENAME_EXCED_RANGE => res.hr = S_OK

(* an input of PATHCCH_MAX_CCH code units is rejected although long paths are allowed *)
C11_Witness ==
    /\ op = "PathAllocCanonicalize"
    /\ Len(arg.path_in) = PATHCCH_MAX_CCH
    /\ arg.flags = {PATHCCH_ALLOW_LONG_PATHS}
    /\ res.hr = E_FILENAME_EXCED_RANGE
    /\ res.path_out = NULL

-----------------------------------------------------------------------------
(* Vocabulary of the promotion and dot-segment properties *)

(* the path in the buffer when the scan loop has ended, before "Extend the *)
(* path if needed" and before the trailing backslash                       *)
Unextended(path_in, flags) ==
    Str(EndPath(CanonLoop(path_in, EffectiveFlags(flags), CopyRoot(path_in))))

(* X:\ at the start *)
DriveAbsolute(path) == isalphaW(At(path, 0)) /\ At(path, 1) = COLON /\ At(path, 2) = BSLASH

(* X: at the start *)
DriveLetter(path) == isalphaW(At(path, 0)) /\ At(path, 1) = COLON

(* out is path with \\?\ before it, and at most the trailing backslash after it *)
Extended(out, path) == out \in {prefix_disk \o path, prefix_disk \o path \o <<BSLASH>>}

(* C12 as stated: a successful PathAllocCanonicalize has prepended \\?\   *)
(* exactly when EnsureExtendedLengthPath was requested, whatever the root *)
(* form of the result, or when the result is drive-absolute and longer    *)
(* than the short-path ceiling and ForceEnableLongNameProcessing is not   *)
(* set.                                                                   *)
C12_PromotionEveryRoot ==
    (op = "PathAllocCanonicalize" /\ res.hr = S_OK) =>
        LET u == Unextended(arg.path_in, arg.flags) IN
        Extended(res.path_out, u)
            <=> \/ PATHCCH_ENSURE_IS_EXTENDED_LENGTH_PATH \in arg.flags
                \/ /\ DriveAbsolute(u)
                   /\ Len(u) + 1 > MAX_PATH
                   /\ PATHCCH_FORCE_ENABLE_LONG_NAME_PROCESS \notin arg.flags

(* C12 (amended): a successful PathAllocCanonicalize has prepended \\?\   *)
(* exactly when the result begins with a drive letter and ':',            *)
(* ForceEnableLongNameProcessing is not set, and EnsureExtendedLengthPath *)
(* was requested or the result is longer than the short-path ceiling; in  *)
(* every other case the result is returned without the prefix.            *)
C12_Promotion ==
    (op = "PathAllocCanonicalize" /\ res.hr = S_OK) =>
        LET u == Unextended(arg.path_in, arg.flags) IN
        /\ Extended(res.path_out, u)
             <=> /\ DriveLetter(u)
                 /\ PATHCCH_FORCE_ENABLE_LONG_NAME_PROCESS \notin arg.flags
                 /\ \/ PATHCCH_ENSURE_IS_EXTENDED_LENGTH_PATH \in arg.flags
                    \/ Len(u) + 1 > MAX_PATH
        /\ ~Extended(res.path_out, u) => res.path_out \in {u, u \o <<BSLASH>>}

(* a:\ and 257 a's with AllowLongPaths comes back with \\?\ before it *)
C12_Witness ==
    /\ op = "PathAllocCanonicalize"
    /\ arg.flags = {PATHCCH_ALLOW_LONG_PATHS}
    /\ arg.path_in = LongPath(<<97, COLON, BSLASH>>, MAX_PATH)
    /\ res.hr = S_OK
    /\ res.path_out = prefix_disk \o arg.path_in

(* C13: with DoNotNormalizeSegments set, or EnsureExtendedLengthPath which *)
(* implies it, PathAllocCanonicalize keeps every . and .. segment: for an  *)
(* input without device prefix the result before the extension and the     *)
(* trailing backslash equals the input.                                    *)
C13_DotSegmentsKept ==
    (/\ op = "PathAllocCanonicalize"
     /\ res.hr = S_OK
     /\ PATHCCH_DO_NOT_NORMALIZE_SEGMENTS \in EffectiveFlags(arg.flags)
     /\ ~HasPrefix(arg.path_in, prefix_disk)) =>
        Unextended(arg.path_in, arg.flags) = arg.path_in

-----------------------------------------------------------------------------
(* Calls of PathAllocCombine *)

(* the paths of the wrappers and \, a\b, a:\a\b, \\a\b\c *)
CombinePaths ==
    CchPaths \cup { <<BSLASH>>, <<97, BSLASH, 98>>, <<97, COLON, BSLASH, 97, BSLASH, 98>>,
                    <<BSLASH, BSLASH, 97, BSLASH, 98, BSLASH, 99>> }

CallPathAllocCombine ==
    /\ op = "idle"
    /\ \E path1 \in CombinePaths, path2 \in CombinePaths, flags \in CchFlagSets,
          junk \in HeapJunk, avail \in HeapAvail :
          /\ arg' = [path1 |-> path1, path2 |-> path2, flags |-> flags, junk |-> junk,
                     avail |-> avail]
          /\ res' = PathAllocCombine(path1, path2, flags, junk, avail)
    /\ op' = "PathAllocCombine"
    /\ prev' = NoCall

NextCombine ==
    \/ CallPathAllocCombine
    \/ Return

SpecCombine == Init /\ [][NextCombine]_vars

-----------------------------------------------------------------------------
(* Vocabulary of the combine properties *)

(* both allocations of a PathAllocCombine call are served *)
HeapServes == arg.avail >= 2

(* C14: PathAllocCombine(path1, path2, flags) with a non-null path1 and a  *)
(* path2 that starts with a drive letter and ':' or with \\ returns the    *)
(* status and the string of PathAllocCanonicalize(path2, flags): path1     *)
(* contributes nothing and nothing is added to path2.                      *)
C14_FullyQualifiedPath2 ==
    (/\ op = "PathAllocCombine"
     /\ arg.path1 # NULL /\ arg.path2 # NULL
     /\ \/ isalphaW(At(arg.path2, 0)) /\ At(arg.path2, 1) = COLON
        \/ At(arg.path2, 0) = BSLASH /\ At(arg.path2, 1) = BSLASH
     /\ HeapServes) =>
        res = PathAllocCanonicalize(arg.path2, arg.flags)

(* path without its \\?\ or \\?\UNC\ prefix *)
Unprefixed(path) == Str(PathCchStripPrefix(strcpyAt(Zeros(Len(path) + 2), 0, path), Len(path) + 2).path)

(* the root of a path as PathCchSkipRoot delimits it, empty for a path without root *)
SkippedRoot(path) ==
    IF PathCchSkipRoot(Unprefixed(path)).hr = S_OK
    THEN SubSeq(Unprefixed(path), 1, PathCchSkipRoot(Unprefixed(path)).root_end)
    ELSE << >>

(* root and rest with exactly one \ between them *)
JoinedByOne(root, rest) ==
    IF root # << >> /\ root[Len(root)] = BSLASH THEN root \o rest
    ELSE root \o <<BSLASH>> \o rest

(* path2 begins with exactly one \ *)
SingleRooted(path2) == At(path2, 0) = BSLASH /\ At(path2, 1) # BSLASH

(* C15: PathAllocCombine(path1, path2, flags) with a non-empty path1,      *)
(* rooted or not, and a path2 that begins with exactly one \ returns the   *)
(* canonicalization of the root of path1 joined by one \ with path2 minus  *)
(* its leading \; no segment of path1 after its root is in the result.     *)
C15_Path1ReducedToRoot ==
    (/\ op = "PathAllocCombine"
     /\ arg.path1 # NULL /\ arg.path1 # << >>
     /\ arg.path2 # NULL /\ SingleRooted(arg.path2)
     /\ HeapServes) =>
        res = PathAllocCanonicalize(JoinedByOne(SkippedRoot(arg.path1), Tail(arg.path2)), arg.flags)

-----------------------------------------------------------------------------
(* PathCchFindExtension, PathCchRemoveExtension, PathCchAddExtension on a  *)
(* buffer holding a string; size is the capacity the caller states.        *)

(* a null extension pointer *)
NoExtension == -1

(* the scan of PathCchFindExtension from index i on; lastpoint is an index *)
RECURSIVE FindExtensionLoop(_, _, _, _)
FindExtensionLoop(path, size, i, lastpoint) ==
    IF Rd(path, i) = NUL
    THEN [hr |-> S_OK, extension |-> IF lastpoint = NoExtension THEN i ELSE lastpoint]
    ELSE IF i + 1 = size \/ i + 1 = PATHCCH_MAX_CCH
         THEN [hr |-> E_INVALIDARG, extension |-> NoExtension]
    ELSE FindExtensionLoop(path, size, i + 1,
                           IF Rd(path, i) = BSLASH \/ Rd(path, i) = SPACE THEN NoExtension
                           ELSE IF Rd(path, i) = DOT THEN i
                           ELSE lastpoint)

PathCchFindExtension(path, size) ==
    IF path = NULL \/ size = 0 \/ size > PATHCCH_MAX_CCH
    THEN [hr |-> E_INVALIDARG, extension |-> NoExtension]
    ELSE FindExtensionLoop(path, size, 0, NoExtension)

(* "while (next - path < size && *next) *next++ = 0" *)
RECURSIVE ZeroExtension(_, _, _)
ZeroExtension(path, size, next) ==
    IF next < size /\ Rd(path, next) # NUL
    THEN ZeroExtension(Wr(path, next, NUL), size, next + 1)
    ELSE [path |-> path, next |-> next]

(* PathCchRemoveExtension reporting S_OK whether or not it removed anything *)
PathCchRemoveExtension_AlwaysOk(path, size) ==
    LET Found(f) ==
            IF FAILED(f.hr) THEN [hr |-> f.hr, path |-> path]
            ELSE [hr |-> S_OK, path |-> ZeroExtension(path, size, f.extension).path]
    IN  IF path = NULL \/ size = 0 \/ size > PATHCCH_MAX_CCH
        THEN [hr |-> E_INVALIDARG, path |-> path]
        ELSE Found(PathCchFindExtension(path, size))

PathCchRemoveExtension(path, size) ==
    LET Zeroed(f, z) ==
            [hr |-> IF z.next = f.extension THEN S_FALSE ELSE S_OK, path |-> z.path]
        Found(f) ==
            IF FAILED(f.hr) THEN [hr |-> f.hr, path |-> path]
            ELSE Zeroed(f, ZeroExtension(path, size, f.extension))
    IN  IF path = NULL \/ size = 0 \/ size > PATHCCH_MAX_CCH
        THEN [hr |-> E_INVALIDARG, path |-> path]
        ELSE Found(PathCchFindExtension(path, size))

(* strnlenW(string, maxlen) on a buffer *)
strnlenW(string, maxlen) == IF strlenW(string) < maxlen THEN strlenW(string) ELSE maxlen

(* the extension has a . after its first unit, a space or a \ *)
BadExtension(extension) ==
    \E i \in 1..Len(extension) :
        (extension[i] = DOT /\ i > 1) \/ extension[i] = SPACE \/ extension[i] = BSLASH

PathCchAddExtension(path, size, extension) ==
    LET has_dot    == At(extension, 0) = DOT
        dot_length == IF At(extension, 0) = DOT THEN 0 ELSE 1
        Added(path_length) ==
            IF path_length + dot_length + Len(extension) + 1 > size
            THEN [hr |-> STRSAFE_E_INSUFFICIENT_BUFFER, path |-> path]
            ELSE IF extension = << >> \/ extension = <<DOT>>
            THEN [hr |-> S_OK, path |-> path]
            ELSE IF ~has_dot
            THEN [hr |-> S_OK,
                  path |-> strcpyAt(Wr(path, path_length, DOT), path_length + 1, extension)]
            ELSE [hr |-> S_OK, path |-> strcpyAt(path, path_length, extension)]
        Found(f) ==
            IF FAILED(f.hr) THEN [hr |-> f.hr, path |-> path]
            ELSE IF Rd(path, f.extension) # NUL THEN [hr |-> S_FALSE, path |-> path]
            ELSE Added(strnlenW(path, size))
    IN  IF path = NULL \/ size = 0 \/ size > PATHCCH_MAX_CCH \/ extension = NULL
        THEN [hr |-> E_INVALIDARG, path |-> path]
        ELSE IF BadExtension(extension) THEN [hr |-> E_INVALIDARG, path |-> path]
        ELSE Found(PathCchFindExtension(path, size))

-----------------------------------------------------------------------------
(* Callers of PathCchStripPrefix, PathCchRemoveExtension, PathCchAddExtension *)

(* the caller's buffers are allocations of MaxExtSize units *)
MaxExtSize == 12

(* a buffer holding the string s, stale z in the units after its terminator *)
ExtBuffer(s) ==
    [i \in 1..MaxExtSize |-> IF i <= Len(s) THEN s[i] ELSE IF i = Len(s) + 1 THEN NUL ELSE 122]

(* "", a, a., .b, a.b, a.b\c, a.b c, a\b.c, \\?\a, \\?\a:, \\?\a:\a.b, \\?\UNC\a *)
ExtPaths ==
    { << >>, <<97>>, <<97, DOT>>, <<DOT, 98>>, <<97, DOT, 98>>, <<97, DOT, 98, BSLASH, 99>>,
      <<97, DOT, 98, SPACE, 99>>, <<97, BSLASH, 98, DOT, 99>>,
      prefix_disk \o <<97>>, prefix_disk \o <<97, COLON>>,
      prefix_disk \o <<97, COLON, BSLASH, 97, DOT, 98>>, prefixed_unc \o <<97>> }

(* "", ., b, .b, b.c, b\, a space, and the null pointer *)
Extensions ==
    { << >>, <<DOT>>, <<98>>, <<DOT, 98>>, <<98, DOT, 99>>, <<98, BSLASH>>, <<SPACE>>, NULL }

(* the capacities a caller states: up to the allocation, and one above the ceiling *)
ExtSizes == (0..MaxExtSize) \cup {OversizedCch}

CallPathCchStripPrefix ==
    /\ op = "idle"
    /\ \E s \in ExtPaths, size \in ExtSizes :
          /\ arg' = [path |-> ExtBuffer(s), size |-> size]
          /\ res' = PathCchStripPrefix(ExtBuffer(s), size)
    /\ op' = "PathCchStripPrefix"
    /\ prev' = NoCall

CallPathCchRemoveExtension ==
    /\ op = "idle"
    /\ \E path \in {ExtBuffer(s) : s \in ExtPaths} \cup {NULL}, size \in ExtSizes :
          /\ arg' = [path |-> path, size |-> size]
          /\ res' = PathCchRemoveExtension(path, size)
    /\ op' = "PathCchRemoveExtension"
    /\ prev' = NoCall

CallPathCchAddExtension ==
    /\ op = "idle"
    /\ \E path \in {ExtBuffer(s) : s \in ExtPaths} \cup {NULL}, size \in ExtSizes,
          extension \in Extensions :
          /\ arg' = [path |-> path, size |-> size, extension |-> extension]
          /\ res' = PathCchAddExtension(path, size, extension)
    /\ op' = "PathCchAddExtension"
    /\ prev' = NoCall

NextExt ==
    \/ CallPathCchStripPrefix
    \/ CallPathCchRemoveExtension
    \/ CallPathCchAddExtension
    \/ Return

SpecExt == Init /\ [][NextExt]_vars

-----------------------------------------------------------------------------
(* the three functions that report "nothing changed" by S_FALSE *)
NoChangeOps == {"PathCchStripPrefix", "PathCchRemoveExtension", "PathCchAddExtension"}

(* C16 as stated: a successful PathCchStripPrefix, PathCchRemoveExtension  *)
(* or PathCchAddExtension returns S_FALSE exactly when it left the path    *)
(* buffer unchanged and S_OK exactly when it modified it.                  *)
C16_NoChangeCodeEveryCall ==
    (op \in NoChangeOps /\ SUCCEEDED(res.hr)) =>
        (res.hr = S_FALSE <=> res.path = arg.path)

(* C16 (amended): a successful PathCchStripPrefix, PathCchRemoveExtension  *)
(* or PathCchAddExtension returns S_FALSE only when it left the path       *)
(* buffer unchanged, and S_OK exactly when it modified it, except that     *)
(* PathCchAddExtension with an empty or dot-only extension returns S_OK    *)
(* with the path unchanged.                                                *)
C16_NoChangeCode ==
    (op \in NoChangeOps /\ SUCCEEDED(res.hr)) =>
        /\ res.hr = S_FALSE => res.path = arg.path
        /\ res.hr = S_OK =>
              (res.path = arg.path
                  <=> (op = "PathCchAddExtension" /\ arg.extension \in {<< >>, <<DOT>>}))

(* adding b to a.b returns S_FALSE and leaves a.b *)
C16_Witness ==
    /\ op = "PathCchAddExtension"
    /\ Str(arg.path) = <<97, DOT, 98>>
    /\ arg.extension = <<98>>
    /\ res.hr = S_FALSE
    /\ res.path = arg.path

-----------------------------------------------------------------------------
(* The reference decoder of the unescape property *)

RefHexDigits == <<48, 49, 50, 51, 52, 53, 54, 55, 56, 57, 65, 66, 67, 68, 69, 70>>

RefLowerHexDigits == <<48, 49, 50, 51, 52, 53, 54, 55, 56, 57, 97, 98, 99, 100, 101, 102>>

RefIsHex(c) == \E i \in 1..16 : RefHexDigits[i] = c \/ RefLowerHexDigits[i] = c

RefHex(c) == (CHOOSE i \in 1..16 : RefHexDigits[i] = c \/ RefLowerHexDigits[i] = c) - 1

(* every % followed by two hex digits replaced by the unit of that value *)
RECURSIVE RefDecode(_)
RefDecode(s) ==
    IF s = << >> THEN << >>
    ELSE IF Len(s) >= 3 /\ s[1] = PCT /\ RefIsHex(s[2]) /\ RefIsHex(s[3])
         THEN <<16 * RefHex(s[2]) + RefHex(s[3])>> \o RefDecode(SubSeq(s, 4, Len(s)))
    ELSE <<s[1]>> \o RefDecode(Tail(s))

(* the number of units before the first # or ? *)
BeforeExtraInfo(s) ==
    IF \E i \in 1..Len(s) : s[i] \in {HASH, QMARK}
    THEN (CHOOSE i \in 1..Len(s) : s[i] \in {HASH, QMARK} /\ \A j \in 1..(i - 1) : s[j] \notin {HASH, QMARK}) - 1
    ELSE Len(s)

RefUnescape(s, flags) ==
    IF URL_DONT_UNESCAPE_EXTRA_INFO \in flags
    THEN RefDecode(SubSeq(s, 1, BeforeExtraInfo(s))) \o SubSeq(s, BeforeExtraInfo(s) + 1, Len(s))
    ELSE RefDecode(s)

(* C17: UrlUnescapeW stores what the reference decoder gives: every % that *)
(* is followed by two hex digits replaced by the unit of that value, every *)
(* other unit copied; with URL_DONT_UNESCAPE_EXTRA_INFO nothing is decoded *)
(* from the first # or ? on.  In place the result is in url, otherwise in  *)
(* the output buffer when it has room, and the length reported is the      *)
(* reference's.                                                            *)
C17_AgreesWithDecoder ==
    (op = "UrlUnescapeW" /\ arg.url # NULL) =>
        LET ref == RefUnescape(Str(arg.url), arg.flags) IN
        IF URL_UNESCAPE_INPLACE \in arg.flags
        THEN res.hr = S_OK /\ SubSeq(res.url, 1, Len(ref) + 1) = ref \o <<NUL>>
        ELSE /\ res.hr = S_OK =>
                  /\ SubSeq(res.out, 1, Len(ref) + 1) = ref \o <<NUL>>
                  /\ res.len = Len(ref)
             /\ res.hr \in {S_OK, E_POINTER}
             /\ res.hr = E_POINTER => res.len = Len(ref) + 1

(* %41?%42 with URL_DONT_UNESCAPE_EXTRA_INFO comes back as A?%42 *)
C17_Witness ==
    /\ op = "UrlUnescapeW"
    /\ arg.url # NULL
    /\ Str(arg.url) = <<PCT, 52, 49, QMARK, PCT, 52, 50>>
    /\ arg.flags = {URL_DONT_UNESCAPE_EXTRA_INFO}
    /\ res.hr = S_OK
    /\ Str(res.out) = <<65, QMARK, PCT, 52, 50>>

-----------------------------------------------------------------------------
(* The decision table of the escape property *)

(* space < > " { } | \ ^ ] [ ` & *)
TablePunctuation == {SPACE, 60, 62, 34, LBRACE, RBRACE, 124, BSLASH, 94, 93, 91, 96, 38}

(* control characters, 0x7F..0xFF and the punctuation set *)
TableUnsafe == (0..31) \cup (127..255) \cup TablePunctuation

TableAlnum == (48..57) \cup (65..90) \cup (97..122)

(* % and the two upper-case hexadecimal digits of b *)
TablePercent(b) == <<PCT, RefHexDigits[(b \div 16) + 1], RefHexDigits[(b % 16) + 1]>>

(* the escaped UTF-8 bytes of a unit in 0x80..0x7FF *)
TablePercentUtf8(c) == TablePercent(192 + (c \div 64)) \o TablePercent(128 + (c % 64))

(* out after its first n units *)
Rest(out, n) == SubSeq(out, n + 1, Len(out))

StartsWith(out, p) == Len(out) >= Len(p) /\ SubSeq(out, 1, Len(p)) = p

(* out is in unit by unit: an alphanumeric unit as it is; a unit of         *)
(* rules.unsafe, before the first unit of rules.stops, as %XX (as the %XX   *)
(* of its UTF-8 bytes when rules.utf8), a \ as / or %2F when rules.bash;    *)
(* any other unit as it is or as %XX                                        *)
RECURSIVE TableHolds(_, _, _, _)
TableHolds(rules, in, out, stopped) ==
    IF in = << >> THEN out = << >>
    ELSE LET c  == in[1]
             st == stopped \/ c \in rules.stops
             Then(p) == StartsWith(out, p) /\ TableHolds(rules, Tail(in), Rest(out, Len(p)), st)
         IN  IF c \in TableAlnum THEN Then(<<c>>)
             ELSE IF c = BSLASH /\ rules.bash /\ ~st
                  THEN Then(<<SLASH>>) \/ Then(TablePercent(SLASH))
             ELSE IF c \in rules.unsafe /\ ~st
                  THEN IF rules.utf8 /\ c >= 128 THEN Then(TablePercentUtf8(c))
                       ELSE Then(TablePercent(c))
             ELSE Then(<<c>>) \/ (c <= 255 /\ Then(TablePercent(c)))

(* a file URL: the scheme and its colon as they are, the run of / and \     *)
(* after it, with a host localhost, stored as at most three /               *)
FileTableHolds(rules, in, out) ==
    LET run == SlashRun(in, 5) IN
    /\ StartsWith(out, SubSeq(in, 1, 5))
    /\ \E k \in 0..3, host \in {0, 9, 10} :
          /\ StartsWith(Rest(out, 5), Rep(SLASH, k))
          /\ 5 + run + host <= Len(in)
          /\ host > 0 => HasPrefixI(Rest(in, 5 + run), localhost)
          /\ TableHolds(rules, Rest(in, 5 + run + host), Rest(out, 5 + k), FALSE)

(* the table as the claim states it: no stop, every flag, every scheme *)
StatedRules(flags) ==
    [unsafe |-> TableUnsafe, stops |-> {}, bash |-> FALSE,
     utf8 |-> URL_ESCAPE_AS_UTF8 \in flags]

(* the scheme-specific handling applies: URL_ESCAPE_SEGMENT_ONLY is not in *)
(* effect                                                                  *)
SchemeRules(flags) == URL_ESCAPE_SEGMENT_ONLY \notin flags \/ URL_ESCAPE_SPACES_ONLY \in flags

SchemeOf(url) == ParseURLW(url).nScheme

(* the table as the code applies it *)
AppliedRules(url, flags) ==
    [unsafe |-> IF URL_ESCAPE_SPACES_ONLY \in flags THEN {SPACE} ELSE TableUnsafe,
     stops  |-> IF URL_ESCAPE_SPACES_ONLY \in flags \/ ~SchemeRules(flags) THEN {}
                ELSE IF SchemeOf(url) = URL_SCHEME_FILE THEN {QMARK}
                ELSE IF SchemeOf(url) = URL_SCHEME_MAILTO THEN {}
                ELSE {QMARK, HASH},
     bash   |-> SchemeRules(flags)
                /\ SchemeOf(url) \in {URL_SCHEME_FILE, URL_SCHEME_HTTP, URL_SCHEME_HTTPS},
     utf8   |-> URL_ESCAPE_AS_UTF8 \in flags]

(* C18 as stated: a successful UrlEscapeW has replaced by %XX every control *)
(* character, every character in 0x7F..0xFF and every character of the      *)
(* punctuation set, at every position and for every scheme, and has left    *)
(* every alphanumeric character as it was.                                  *)
C18_EscapeTableEveryPosition ==
    (op = "UrlEscapeW" /\ res.hr = S_OK) =>
        TableHolds(StatedRules(arg.flags), arg.url, Str(res.out), FALSE)

(* C18 (amended): a successful UrlEscapeW has left every alphanumeric       *)
(* character as it was and has replaced by %XX every control character,     *)
(* every character in 0x7F..0xFF and every character of the punctuation set *)
(* that stands before the first ? or # of the URL (for a file URL before    *)
(* the first ?; in a mailto URL and with URL_ESCAPE_SEGMENT_ONLY at every   *)
(* position), except that in an http, https or file URL a \ is stored as /  *)
(* or %2F and the slashes and the host localhost after file: are folded;    *)
(* with URL_ESCAPE_SPACES_ONLY only the space is replaced, at every         *)
(* position.                                                                *)
C18_EscapeTable ==
    (op = "UrlEscapeW" /\ res.hr = S_OK) =>
        IF SchemeRules(arg.flags) /\ SchemeOf(arg.url) = URL_SCHEME_FILE
        THEN FileTableHolds(AppliedRules(arg.url, arg.flags), arg.url, Str(res.out))
        ELSE TableHolds(AppliedRules(arg.url, arg.flags), arg.url, Str(res.out), FALSE)

(* ab:a&b#c&d comes back as ab:a%26b#c&d *)
C18_Witness ==
    /\ op = "UrlEscapeW"
    /\ arg.url = <<97, 98, 58, 97, 38, 98, HASH, 99, 38, 100>>
    /\ arg.flags = {}
    /\ res.hr = S_OK
    /\ Str(res.out) = <<97, 98, 58, 97, PCT, 50, 54, 98, HASH, 99, 38, 100>>


-----------------------------------------------------------------------------
(* A path with a drive given to UrlCanonicalizeW *)

(* X:\rest, X a letter *)
DrivePath(url) ==
    /\ url # NULL
    /\ Len(url) >= 3
    /\ isalphaW(url[1]) /\ url[2] = COLON /\ url[3] = BSLASH

RECURSIVE WithoutTrailing(_)
WithoutTrailing(s) ==
    IF s # << >> /\ s[Len(s)] <= SPACE THEN WithoutTrailing(SubSeq(s, 1, Len(s) - 1)) ELSE s

(* the path without its tabs and without the spaces and control characters *)
(* at its end                                                              *)
Cleaned(url) == WithoutTrailing(SelectSeq(url, LAMBDA c : c # TAB))

(* the units the file-URL rules replace by %XX *)
FileUnsafe == TableUnsafe \cup {HASH}

(* out is in unit by unit: a \ as /, when everywhere or before the first ?; *)
(* a unit of FileUnsafe before the first ? as %XX; any other unit as it is  *)
RECURSIVE DriveTableHolds(_, _, _, _)
DriveTableHolds(in, out, stopped, everywhere) ==
    IF in = << >> THEN out = << >>
    ELSE LET c  == in[1]
             st == stopped \/ c = QMARK
             Then(p) == /\ StartsWith(out, p)
                        /\ DriveTableHolds(Tail(in), Rest(out, Len(p)), st, everywhere)
         IN  IF c = BSLASH /\ (everywhere \/ ~st) THEN Then(<<SLASH>>)
             ELSE IF c \in FileUnsafe /\ ~st THEN Then(TablePercent(c))
             ELSE Then(<<c>>)

DefaultCanonicalized ==
    /\ op = "UrlCanonicalizeW"
    /\ arg.flags = {}
    /\ DrivePath(arg.url)
    /\ res.hr = S_OK

(* C19 as stated: UrlCanonicalizeW with default flags turns a path X:\rest  *)
(* into a URL that begins with file:///X:, where every \ of the path is a / *)
(* and the unsafe characters are %XX by the file-URL rules.                 *)
C19_EveryBackslash ==
    DefaultCanonicalized =>
        /\ StartsWith(Str(res.out), wszFilePrefix \o <<arg.url[1], COLON>>)
        /\ DriveTableHolds(Cleaned(arg.url), Rest(Str(res.out), Len(wszFilePrefix)),
                           FALSE, TRUE)

(* C19 (amended): UrlCanonicalizeW with default flags turns a path X:\rest, *)
(* its tabs and the spaces and control characters at its end removed, into  *)
(* a URL that begins with file:///X:, where every \ before the first ? of   *)
(* the path is a / and every control character, every character in         *)
(* 0x7F..0xFF, every character of the punctuation set and every # before    *)
(* the first ? is %XX; from the first ? on the path is stored as it is.     *)
C19_DrivePathAsFileUrl ==
    DefaultCanonicalized =>
        /\ StartsWith(Str(res.out), wszFilePrefix \o <<arg.url[1], COLON>>)
        /\ DriveTableHolds(Cleaned(arg.url), Rest(Str(res.out), Len(wszFilePrefix)),
                           FALSE, FALSE)

(* a:\a b comes back as file:///a:/a%20b *)
C19_Witness ==
    /\ DefaultCanonicalized
    /\ arg.url = <<97, COLON, BSLASH, 97, SPACE, 98>>
    /\ Str(res.out) = wszFilePrefix \o <<97, COLON, SLASH, 97, PCT, 50, 48, 98>>


-----------------------------------------------------------------------------
(* The two loops, one iteration at a time, in one call.  While a loop runs, *)
(* op names it, arg holds the arguments of the call, res the loop's         *)
(* variables and prev the number of iterations run; once the call has       *)
(* returned op names the function and res holds its result.                 *)

MaxStepLen == 4

(* no loop of the inputs below runs as many iterations *)
MaxIterations == 12

StepPaths ==
    {pre \o body : pre \in {<< >>, prefix_disk}, body \in Strings(PathAlphabet, MaxStepLen)}
        \cup {NULL}

StepFlagSets ==
    { {}, {PATHCCH_DO_NOT_NORMALIZE_SEGMENTS}, {PATHCCH_ENSURE_TRAILING_SLASH},
      {PATHCCH_FORCE_ENABLE_LONG_NAME_PROCESS, PATHCCH_FORCE_DISABLE_LONG_NAME_PROCESS} }

(* file://localhost/a/.. and file://localhost\\a *)
LocalhostUrls ==
    { wszFile \o <<SLASH, SLASH>> \o wszLocalhost \o <<SLASH, 97, SLASH, DOT, DOT>>,
      wszFile \o <<SLASH, SLASH>> \o wszLocalhost \o <<BSLASH, BSLASH, 97>> }

StepUrls == CanonUrls \cup LocalhostUrls

StepUrlFlagSets == CanonFlagSets \cup {{URL_WININET_COMPATIBILITY}}

NoIteration == [op |-> "none", iterations |-> 0]

(* the loop condition holds: the unit at the read cursor is no terminator *)
SegmentPending == op = "segment loop" /\ At(arg.path_in, res.src) # NUL

StatePending == op = "state machine" /\ Rd(res.cx.url, res.m.wk1) # NUL

(* control enters the body of a loop whose condition holds *)
NextIteration ==
    /\ SegmentPending \/ StatePending
    /\ prev.iterations < MaxIterations
    /\ prev' = [prev EXCEPT !.iterations = @ + 1]

(* PathAllocCanonicalize up to its segment loop *)
EnterSegmentLoop ==
    /\ op = "idle"
    /\ \E path_in \in StepPaths, flags \in StepFlagSets :
          /\ arg' = [path_in |-> path_in, flags |-> flags]
          /\ IF path_in = NULL \/ InvalidFlags(flags) \/ TooLong(Len(path_in), flags)
             THEN op' = "PathAllocCanonicalize" /\ res' = PathAllocCanonicalize(path_in, flags)
             ELSE op' = "segment loop" /\ res' = CopyRoot(path_in)
    /\ prev' = NoIteration

(* one iteration of the loop over the units at src *)
SegmentStep ==
    /\ SegmentPending
    /\ NextIteration
    /\ res' = CanonStep(arg.path_in, EffectiveFlags(arg.flags), res)
    /\ UNCHANGED <<op, arg>>

(* src is at the terminator: control leaves the loop *)
ExitSegmentLoop ==
    /\ op = "segment loop"
    /\ ~SegmentPending
    /\ op' = "PathAllocCanonicalize"

(* ... and the path is ended, extended and returned *)
LeaveSegmentLoop ==
    /\ ExitSegmentLoop
    /\ res' = [hr |-> S_OK,
               path_out |-> Str(TrailingSlash(ExtendPath(EndPath(res),
                                                         EffectiveFlags(arg.flags)),
                                              EffectiveFlags(arg.flags)))]
    /\ UNCHANGED <<arg, prev>>

(* UrlCanonicalizeW up to its state machine: res holds cx and m *)
EnterStateMachine ==
    /\ op = "idle"
    /\ \E url \in StepUrls, flags \in StepUrlFlagSets, heap \in UrlHeaps :
          LET a == [url |-> url, out |-> UrlBuffer(UrlRoom), len |-> UrlRoom, flags |-> flags,
                    junk |-> heap.junk, past |-> heap.past, avail |-> 3]
              Started(stripped) == CanonStart(stripped, strlenW(stripped) + 1, flags, heap.junk)
          IN  /\ arg' = a
              /\ IF url = NULL \/ At(url, 0) = NUL
                 THEN op' = "UrlCanonicalizeW" /\ res' = UrlCall("UrlCanonicalizeW", a)
                 ELSE op' = "state machine" /\ res' = Started(StripTabs(url, heap.junk))
    /\ prev' = NoIteration

(* one iteration of the loop over the units at wk1: one pass of the switch, *)
(* url_copy terminated after it                                             *)
StateMachineStep ==
    /\ StatePending
    /\ NextIteration
    /\ LET Terminated(a) == [a EXCEPT !.copy = Wr(a.copy, a.wk2, NUL)]
       IN  res' = [res EXCEPT !.m = Terminated(CanonState(res.cx, res.m))]
    /\ UNCHANGED <<op, arg>>

(* wk1 is at the terminator: control leaves the loop *)
ExitStateMachine ==
    /\ op = "state machine"
    /\ ~StatePending
    /\ op' = "UrlCanonicalizeW"

(* ... and url_copy is trimmed, escaped and stored *)
LeaveStateMachine ==
    /\ ExitStateMachine
    /\ res' = UrlCall("UrlCanonicalizeW", arg)
    /\ UNCHANGED <<arg, prev>>

NextSteps ==
    \/ EnterSegmentLoop
    \/ SegmentStep
    \/ LeaveSegmentLoop
    \/ EnterStateMachine
    \/ StateMachineStep
    \/ LeaveStateMachine

(* control enters the body of a loop whose condition holds and leaves a   *)
(* loop whose condition is false: the code is sequential and nothing else *)
(* is scheduled between two iterations                                    *)
SpecSteps ==
    /\ Init /\ [][NextSteps]_vars
    /\ WF_prev(NextIteration)
    /\ WF_op(ExitSegmentLoop) /\ WF_op(ExitStateMachine)

InLoop == op \in {"segment loop", "state machine"}

Returned == op \in {"PathAllocCanonicalize", "UrlCanonicalizeW"}

(* neither read cursor is past the terminator of its string *)
CursorsInString ==
    /\ op = "segment loop" => res.src <= Len(arg.path_in)
    /\ op = "state machine" => res.m.wk1 <= strlenW(res.cx.url)

(* an iteration has consumed a unit, or the iteration that follows does *)
Consumes ==
    /\ (op = "segment loop" /\ op' = "segment loop") => res'.src > res.src
    /\ (op = "state machine" /\ op' = "state machine") =>
          \/ res'.m.wk1 > res.m.wk1
          \/ /\ Rd(res'.cx.url, res'.m.wk1) # NUL
             /\ CanonState(res'.cx, res'.m).wk1 > res'.m.wk1

(* C20: the segment loop of PathAllocCanonicalize and the state machine of *)
(* UrlCanonicalizeW finish and the call returns; every iteration consumes  *)
(* at least one unit of the input or moves to a state whose next iteration *)
(* does, and neither read cursor goes past the terminating NUL.            *)
C20_Termination ==
    /\ []CursorsInString
    /\ [][Consumes]_vars
    /\ (InLoop ~> Returned)

(* the state machine has gone to state 3 without consuming a unit *)
C20_Witness ==
    /\ op = "state machine"
    /\ prev.iterations = 1
    /\ res.m.state = 3
    /\ res.m.wk1 = 0
    /\ Rd(res.cx.url, 0) # NUL

-----------------------------------------------------------------------------
(* The root location of UrlCanonicalizeW *)

(* the scan up to the pass that finds state 6, or to the end of url *)
RECURSIVE ScanToRoot(_, _)
ScanToRoot(cx, m) ==
    IF Rd(cx.url, m.wk1) = NUL \/ m.state = 6 THEN m
    ELSE LET Terminated(a) == [a EXCEPT !.copy = Wr(a.copy, a.wk2, NUL)]
         IN  ScanToRoot(cx, Terminated(CanonState(cx, m)))

(* the scan of the call in arg when it has reached the root location *)
AtRoot ==
    LET Started(url) == CanonStart(url, strlenW(url) + 1, arg.flags, arg.junk)
        Reached(start) == ScanToRoot(start.cx, start.m)
    IN  Reached(Started(StripTabs(arg.url, arg.junk)))

(* url_copy up to the root location and with it *)
EmittedRoot(m) == SubSeq(m.copy, 1, m.wk2)

(* a successful call that simplifies and has emitted a root slash with path left to scan *)
RootEmitted ==
    /\ op = "UrlCanonicalizeW"
    /\ arg.url # NULL
    /\ arg.url # << >>
    /\ URL_DONT_SIMPLIFY \notin arg.flags
    /\ res.hr = S_OK
    /\ LET m == AtRoot
       IN  /\ m.state = 6
           /\ Rd(StripTabs(arg.url, arg.junk), m.wk1) # NUL
           /\ Rd(m.copy, m.wk2 - 1) \in {SLASH, BSLASH}

(* the text of url after its last / or \ *)
RECURSIVE LastSegment(_)
LastSegment(url) ==
    IF url = << >> THEN << >>
    ELSE IF url[Len(url)] \in {SLASH, BSLASH} THEN << >>
    ELSE Append(LastSegment(SubSeq(url, 1, Len(url) - 1)), url[Len(url)])

EndsWith(out, p) == Len(out) >= Len(p) /\ SubSeq(out, Len(out) - Len(p) + 1, Len(out)) = p

(* C21: when UrlCanonicalizeW without URL_DONT_SIMPLIFY succeeds and has     *)
(* emitted the root slash, the result begins with what url_copy held up to   *)
(* that slash and with it (scheme, authority, root slash), whatever the      *)
(* scheme and however many . and .. segments follow, and it ends with the    *)
(* last segment of the URL when that is a name.                              *)
C21_RootSlashKept ==
    RootEmitted =>
        /\ StartsWith(Str(res.out), EmittedRoot(AtRoot))
        /\ LET last == LastSegment(SelectSeq(arg.url, LAMBDA c : c # TAB))
           IN  (last # << >> /\ \A i \in 1..Len(last) : isalnumW(last[i]))
                  => EndsWith(Str(res.out), last)

-----------------------------------------------------------------------------
(* Dots inside named segments *)

(* seg has a unit that is neither a dot nor a separator, and no * *)
IsDottedName(seg) ==
    /\ \E i \in 1..Len(seg) : seg[i] \notin {DOT, BSLASH}
    /\ \A i \in 1..Len(seg) : seg[i] # STAR

(* p is no root, \, \\ or X:\ followed by segments that each hold a name unit, *)
(* one of them with a dot: a.b, a..b, ..b, a..                                     *)
DottedNames(p) ==
    /\ RootLen(p) = 0 \/ SeparatorRoot(p)
    /\ AfterRoot(p) # << >>
    /\ \A i \in 1..Len(SplitSegs(AfterRoot(p))) : IsDottedName(SplitSegs(AfterRoot(p))[i])
    /\ \E i \in 1..Len(p) : p[i] = DOT

(* C22: PathAllocCanonicalize with default flags copies literally every . and  *)
(* .. that has another non-separator unit of its segment before or after it:   *)
(* a path whose segments all hold a name unit (a.b, a..b, ..b, a..) is         *)
(* returned as it is, no dot collapsed and no two segments merged.             *)
C22_DotsInNamesKept ==
    (DefaultCanonCall /\ DottedNames(arg.path_in))
        => (res.hr = S_OK /\ res.path_out = arg.path_in)

-----------------------------------------------------------------------------
(* Characters of named segments *)

(* the units of s that are neither a dot nor a separator, in order *)
NameUnits(s) == SelectSeq(s, LAMBDA c : c \notin {DOT, BSLASH})

(* root + segments, each a dot-free name or . : there is no .. to delete a name *)
NamesAndDots(p) ==
    /\ ~HasPrefix(p, prefix_disk)
    /\ AfterRoot(p) # << >>
    /\ \A i \in 1..Len(SplitSegs(AfterRoot(p))) :
          LET seg == SplitSegs(AfterRoot(p))[i] IN IsName(seg) \/ IsDot(seg)

(* C23: PathAllocCanonicalize (default flags) copies every character of a     *)
(* named segment verbatim; on a path without .. segments no character of a    *)
(* name is absent from the result, also when an incomplete drive root X: is   *)
(* completed inside the scan loop (X:name\.\rest).                            *)
C23_NameCharactersKept ==
    (DefaultCanonCall /\ NamesAndDots(arg.path_in))
        => (res.hr = S_OK /\ NameUnits(res.path_out) = NameUnits(arg.path_in))

-----------------------------------------------------------------------------
(* PathCchIsRoot, PathCchRemoveBackslashEx on a buffer holding a string *)

PathCchIsRoot_RootEnd(path) ==
    get_root_end(path) # NoRoot /\ At(path, get_root_end(path) + 1) = NUL

PathCchIsRoot(path) ==
    IF path = NULL THEN FALSE
    ELSE IF At(path, 0) = NUL THEN FALSE
    ELSE
      LET root_end == get_root_end(path)
          is_unc   == is_prefixed_unc(path)
          Second(b) == ~b.ret /\ At(path, b.next) = NUL
          First(a) ==
              IF a.ret /\ At(path, a.next) = NUL THEN FALSE
              ELSE IF At(path, a.next) = NUL THEN TRUE
              ELSE Second(get_next_segment(path, a.next + 1))
      IN  IF root_end = NoRoot THEN FALSE
          ELSE IF is_unc \/ (At(path, 0) = BSLASH /\ At(path, 1) = BSLASH
                             /\ At(path, 2) # QMARK)
          THEN IF At(path, root_end + 1) = NUL THEN TRUE
               ELSE First(get_next_segment(path, root_end + 1))
          ELSE At(path, root_end) = BSLASH /\ At(path, root_end + 1) = NUL

(* "path_length == path_size && !path[path_length]" *)
Unterminated(path, path_size, path_length) ==
    path_length = path_size /\ At(path, path_length) = NUL

(* path_end and free_size tell whether the pointer is non-null; in the result *)
(* path_end is an index into path, NoRoot for a null pointer; the caller's    *)
(* two variables hold a null pointer and 0 before the call                    *)
PathCchRemoveBackslashEx(path, path_size, path_end, free_size) ==
    IF path_size = 0 \/ ~path_end \/ ~free_size
    THEN [hr |-> E_INVALIDARG, path |-> path, path_end |-> NoRoot, free_size |-> 0]
    ELSE
      LET root_end == get_root_end(path)
          Measured(path_length) ==
              IF Unterminated(path, path_size, path_length)
              THEN [hr |-> E_INVALIDARG, path |-> path, path_end |-> NoRoot, free_size |-> 0]
              ELSE IF path_length > 0 /\ At(path, path_length - 1) = BSLASH
              THEN IF root_end = NoRoot \/ path_length - 1 > root_end
                   THEN [hr |-> S_OK, path |-> Wr(path, path_length - 1, NUL),
                         path_end |-> path_length - 1,
                         free_size |-> path_size - path_length + 1]
                   ELSE [hr |-> S_FALSE, path |-> path, path_end |-> path_length - 1,
                         free_size |-> path_size - path_length + 1]
              ELSE [hr |-> S_FALSE, path |-> path, path_end |-> path_length,
                    free_size |-> path_size - path_length]
      IN  Measured(strnlenW(path, path_size))

-----------------------------------------------------------------------------
(* Callers of the root functions: get_root_end, PathCchIsRoot,              *)
(* PathCchStripPrefix, PathCchStripToRoot, PathCchRemoveBackslashEx          *)

MaxRootBody == 3

(* {dddddddd-dddd-dddd-dddd-dddddddddddd} with the digit d *)
Guid(d) ==
    <<LBRACE>> \o Rep(d, 8) \o <<DASH>> \o Rep(d, 4) \o <<DASH>> \o Rep(d, 4) \o <<DASH>>
        \o Rep(d, 4) \o <<DASH>> \o Rep(d, 12) \o <<RBRACE>>

(* \\?\Volume and a GUID of the digits a, of the digits 0, of the upper case *)
(* digits F, and in lower case \\?\volume with the digits a                  *)
HexVolumes ==
    { prefixed_volume \o Guid(97), prefixed_volume \o Guid(48), prefixed_volume \o Guid(70),
      <<92, 92, 63, 92, 118, 111, 108, 117, 109, 101>> \o Guid(97) }

(* a GUID of the digits a with the letter g as its first, and as its last, digit *)
NonHexVolumes ==
    { prefixed_volume \o [Guid(97) EXCEPT ![2] = 103],
      prefixed_volume \o [Guid(97) EXCEPT ![37] = 103] }

(* no {, no }, a digit for the first -, a - for a digit, a GUID cut short *)
MalformedVolumes ==
    { prefixed_volume \o [Guid(97) EXCEPT ![1] = 97],
      prefixed_volume \o [Guid(97) EXCEPT ![38] = 97],
      prefixed_volume \o [Guid(97) EXCEPT ![10] = 97],
      prefixed_volume \o [Guid(97) EXCEPT ![3] = DASH],
      prefixed_volume \o SubSeq(Guid(97), 1, 20) }

(* nothing, \\a\, \\?\, \\?\UNC\, \\?\unc\a\, a volume *)
RootPrefixes ==
    { << >>, <<BSLASH, BSLASH, 97, BSLASH>>, prefix_disk, prefixed_unc,
      <<92, 92, 63, 92, 117, 110, 99, 92, 97, 92>> }
        \cup HexVolumes \cup NonHexVolumes \cup MalformedVolumes

(* \\?\UNC\?\a: and \\?\UNC\?\UNC\a *)
NestedPrefixPaths ==
    { prefixed_unc \o <<QMARK, BSLASH, 97, COLON>>,
      prefixed_unc \o <<QMARK, BSLASH, 85, 78, 67, BSLASH, 97>> }

(* a prefix followed by at most MaxRootBody units out of a, \ and : *)
RootPaths ==
    {pre \o body : pre \in RootPrefixes, body \in Strings({97, BSLASH, COLON}, MaxRootBody)}
        \cup NestedPrefixPaths

(* what the units after the terminator hold: the rest of the caller's buffer *)
StaleUnits == { Rep(NUL, 4), <<97, BSLASH, 97, BSLASH>>, <<BSLASH, 122, 122, NUL>> }

(* the buffers that hold the string s *)
RootBuffers(s) == {s \o <<NUL>> \o stale : stale \in StaleUnits}

(* the sizes a caller states for the string s: too small, exact, with room, oversized *)
RootSizes(s) ==
    {n \in {0, 1, 2, Len(s) - 1, Len(s), Len(s) + 1, Len(s) + 3} : n >= 0} \cup {OversizedCch}

CallGetRootEnd ==
    /\ op = "idle"
    /\ \E s \in RootPaths :
          /\ arg' = [path |-> s]
          /\ res' = [root_end |-> get_root_end(s)]
    /\ op' = "get_root_end"
    /\ prev' = NoCall

CallPathCchStripPrefixOfRoot ==
    /\ op = "idle"
    /\ \E s \in RootPaths : \E path \in RootBuffers(s), size \in RootSizes(s) :
          /\ arg' = [path |-> path, size |-> size]
          /\ res' = PathCchStripPrefix(path, size)
    /\ op' = "PathCchStripPrefix"
    /\ prev' = NoCall

CallPathCchStripToRoot ==
    /\ op = "idle"
    /\ \E s \in RootPaths : \E path \in RootBuffers(s), size \in RootSizes(s) :
          /\ arg' = [path |-> path, size |-> size]
          /\ res' = PathCchStripToRoot(path, size)
    /\ op' = "PathCchStripToRoot"
    /\ prev' = NoCall

(* the same call once more on the buffer the first call has left *)
CallAgain ==
    /\ op \in {"PathCchStripPrefix", "PathCchStripToRoot"}
    /\ prev.op = "none"
    /\ SUCCEEDED(res.hr)
    /\ arg' = [path |-> res.path, size |-> arg.size]
    /\ res' = IF op = "PathCchStripPrefix" THEN PathCchStripPrefix(res.path, arg.size)
              ELSE PathCchStripToRoot(res.path, arg.size)
    /\ prev' = [op |-> op, arg |-> arg, res |-> res]
    /\ op' = op

(* PathCchIsRoot on the buffer PathCchStripToRoot has left *)
CallPathCchIsRootOfStripped ==
    /\ op = "PathCchStripToRoot"
    /\ prev.op = "none"
    /\ SUCCEEDED(res.hr)
    /\ arg' = [path |-> res.path]
    /\ res' = [ret |-> PathCchIsRoot(res.path)]
    /\ prev' = [op |-> op, arg |-> arg, res |-> res]
    /\ op' = "PathCchIsRoot"

CallPathCchRemoveBackslashEx ==
    /\ op = "idle"
    /\ \E s \in RootPaths : \E path \in RootBuffers(s), size \in RootSizes(s),
          path_end \in BOOLEAN, free_size \in BOOLEAN :
          /\ arg' = [path |-> path, size |-> size, path_end |-> path_end,
                     free_size |-> free_size]
          /\ res' = PathCchRemoveBackslashEx(path, size, path_end, free_size)
    /\ op' = "PathCchRemoveBackslashEx"
    /\ prev' = NoCall

NextRoot ==
    \/ CallGetRootEnd
    \/ CallPathCchStripPrefixOfRoot
    \/ CallPathCchStripToRoot
    \/ CallAgain
    \/ CallPathCchIsRootOfStripped
    \/ CallPathCchRemoveBackslashEx
    \/ Return

SpecRoot == Init /\ [][NextRoot]_vars

-----------------------------------------------------------------------------
(* Volume roots *)

(* the 32 digit positions of a GUID, counted from the { *)
GuidDigitPositions == (0..37) \ {0, 9, 14, 19, 24, 37}

(* s is \\?\Volume (in any case), {, 8-4-4-4-12 hexadecimal digits with - between *)
(* the groups, }                                                                   *)
WellFormedVolume(s) ==
    /\ HasPrefixI(s, prefixed_volume)
    /\ At(s, 10) = LBRACE
    /\ \A i \in {9, 14, 19, 24} : At(s, 10 + i) = DASH
    /\ At(s, 47) = RBRACE
    /\ \A i \in GuidDigitPositions : isxdigitW(At(s, 10 + i))

(* the root the rules after the volume rule give *)
RootEndWithoutVolume(path) ==
    IF is_prefixed_unc(path) THEN 7
    ELSE IF is_prefixed_disk(path) THEN (IF At(path, 6) = BSLASH THEN 6 ELSE 5)
    ELSE IF At(path, 0) = BSLASH /\ At(path, 1) = BSLASH THEN 1
    ELSE IF At(path, 0) = BSLASH THEN 0
    ELSE IF isalphaW(At(path, 0)) /\ At(path, 1) = COLON
         THEN (IF At(path, 2) = BSLASH THEN 2 ELSE 1)
    ELSE NoRoot

(* C24: get_root_end gives the volume root (the } or the \ after it) only for *)
(* \\?\Volume followed by a well-formed GUID of hexadecimal digits; any other *)
(* text, a letter that is no hexadecimal digit in a digit position included,  *)
(* gets the root of the rules that follow (device-disk, UNC, plain \\).       *)
C24_VolumeNeedsHexGuid ==
    op = "get_root_end" =>
        res.root_end = IF WellFormedVolume(arg.path)
                       THEN (IF At(arg.path, 48) = BSLASH THEN 48 ELSE 47)
                       ELSE RootEndWithoutVolume(arg.path)

-----------------------------------------------------------------------------
(* Stripping the device prefix twice *)

(* s begins with \\?\X: or, in any case of the letters, with \\?\UNC\ *)
DevicePrefixed(s) ==
    \/ (Len(s) >= 6 /\ SubSeq(s, 1, 4) = <<BSLASH, BSLASH, QMARK, BSLASH>>
        /\ (s[5] \in 65..90 \/ s[5] \in 97..122) /\ s[6] = COLON)
    \/ (Len(s) >= 8 /\ SubSeq(s, 1, 4) = <<BSLASH, BSLASH, QMARK, BSLASH>>
        /\ s[5] \in {85, 117} /\ s[6] \in {78, 110} /\ s[7] \in {67, 99} /\ s[8] = BSLASH)

(* the size PathCchStripPrefix accepts *)
StripSize(size) == size > 0 /\ size <= PATHCCH_MAX_CCH

(* a first call of PathCchStripPrefix with an accepted size on a path without prefix *)
StripsUnprefixed ==
    /\ op = "PathCchStripPrefix"
    /\ prev.op = "none"
    /\ StripSize(arg.size)
    /\ ~DevicePrefixed(Str(arg.path))

(* PathCchStripPrefix has succeeded and has been called on its result *)
StrippedTwice == op = "PathCchStripPrefix" /\ prev.op = "PathCchStripPrefix"

(* the call returns the no-change code and leaves the string as it is *)
NoChange == res.hr = S_FALSE /\ Str(res.path) = Str(arg.path)

(* the text after \\?\UNC\ begins with ?\X: or ?\UNC\: with \\ before it *)
(* it is a device prefix again                                           *)
NestedPrefix(s) ==
    DevicePrefixed(s) /\ s[5] \in {85, 117}
    /\ DevicePrefixed(<<BSLASH, BSLASH>> \o From(s, 8))

(* C26 as stated: PathCchStripPrefix on a path without \\?\X: or \\?\UNC\    *)
(* prefix returns S_FALSE and leaves the path unchanged, and for every path  *)
(* with a sufficient size a second PathCchStripPrefix returns S_FALSE and    *)
(* leaves what the first call has produced.                                  *)
C26_StripTwiceEveryPath ==
    /\ StripsUnprefixed => (NoChange /\ res.path = arg.path)
    /\ StrippedTwice => NoChange

(* C26 (amended): the same, the second call taken on every path whose text   *)
(* after a \\?\UNC\ prefix does not begin with ?\X: or ?\UNC\ .              *)
C26_StripTwice ==
    /\ StripsUnprefixed => (NoChange /\ res.path = arg.path)
    /\ (StrippedTwice /\ ~NestedPrefix(Str(prev.arg.path))) => NoChange

(* \\?\UNC\a\a has become \\a\a and the second call has left it *)
C26_Witness ==
    /\ StrippedTwice
    /\ Str(prev.arg.path) = prefixed_unc \o <<97, BSLASH, 97>>
    /\ prev.res.hr = S_OK
    /\ Str(arg.path) = <<BSLASH, BSLASH, 97, BSLASH, 97>>
    /\ NoChange

-----------------------------------------------------------------------------
(* PathCchStripToRoot and PathCchIsRoot *)

StrippedToRoot == prev.op = "PathCchStripToRoot" /\ SUCCEEDED(prev.res.hr)

(* the second PathCchStripToRoot finds nothing to strip *)
SecondStripKeeps ==
    (op = "PathCchStripToRoot" /\ StrippedToRoot)
        => (res.hr = S_FALSE /\ res.path = arg.path)

(* r is X:, \\?\X: or \\?\Volume{...} with no \ after it *)
BareDriveRoot(r) ==
    \/ (Len(r) = 2 /\ isalphaW(r[1]) /\ r[2] = COLON)
    \/ (Len(r) = 6 /\ SubSeq(r, 1, 4) = <<BSLASH, BSLASH, QMARK, BSLASH>>
           /\ isalphaW(r[5]) /\ r[6] = COLON)
    \/ (Len(r) = 48 /\ HasPrefixI(r, prefixed_volume) /\ r[11] = LBRACE /\ r[48] = RBRACE)

(* the text of r after \\?\UNC\ or \\ when r is a UNC path, NULL otherwise *)
UncText(r) ==
    IF HasPrefixI(r, prefixed_unc) THEN SubSeq(r, 9, Len(r))
    ELSE IF Len(r) >= 2 /\ r[1] = BSLASH /\ r[2] = BSLASH /\ At(r, 2) # QMARK
         THEN SubSeq(r, 3, Len(r))
    ELSE NULL

(* a UNC path with an empty server or share name *)
EmptyUncName(r) ==
    /\ UncText(r) \notin {NULL, << >>}
    /\ \/ UncText(r)[1] = BSLASH
       \/ \E i \in 1..(Len(UncText(r)) - 1) :
             UncText(r)[i] = BSLASH /\ UncText(r)[i + 1] = BSLASH

(* a UNC path that ends with the \ after its server name *)
UncEndingInSeparator(r) ==
    /\ UncText(r) \notin {NULL, << >>}
    /\ r[Len(r)] = BSLASH

-----------------------------------------------------------------------------
(* PathCchRemoveBackslashEx and path_size *)

(* a call with both result pointers and a size *)
RemovesBackslash ==
    /\ op = "PathCchRemoveBackslashEx"
    /\ arg.size > 0
    /\ arg.path_end
    /\ arg.free_size

(* no NUL in path[0 .. path_size - 1] *)
NoNulWithinSize == \A i \in 0..(arg.size - 1) : At(arg.path, i) # NUL

(* the call has taken a \ off the end of the string, beyond the root *)
TrailingBackslashRemoved ==
    /\ Str(arg.path) # << >>
    /\ arg.path[Len(Str(arg.path))] = BSLASH
    /\ Len(Str(arg.path)) - 1 > get_root_end(arg.path)
    /\ res.path = Wr(arg.path, Len(Str(arg.path)) - 1, NUL)

(* C30: PathCchRemoveBackslashEx with no NUL within path_size code units      *)
(* fails with E_INVALIDARG and leaves path as it was, whatever lies at or     *)
(* beyond path[path_size]; S_OK comes with a trailing \ beyond the root       *)
(* removed, S_FALSE with path unchanged.                                      *)
C30_RemoveBackslashWithinSize ==
    RemovesBackslash =>
        /\ NoNulWithinSize => (res.hr = E_INVALIDARG /\ res.path = arg.path)
        /\ res.hr = S_OK => TrailingBackslashRemoved
        /\ res.hr = S_FALSE => res.path = arg.path

(* the same for the calls whose string ends within path_size *)
RemoveBackslashOfTerminated ==
    (RemovesBackslash /\ ~NoNulWithinSize) =>
        /\ res.hr \in {S_OK, S_FALSE}
        /\ res.hr = S_OK <=> TrailingBackslashRemoved
        /\ res.hr = S_FALSE => res.path = arg.path

-----------------------------------------------------------------------------
(* scan_url, parse_url: a URL is a string, a pointer into it an index *)

SCHEME   == "SCHEME"
HOST     == "HOST"
PORT     == "PORT"
USERPASS == "USERPASS"

(* a null pointer of struct parsed_url *)
NoPart == -1

(* the units one step of the scan takes at start: 0 ends the scan *)
ScanUnits(url, start, type) ==
    IF type = SCHEME
    THEN IF (islowerW(At(url, start)) /\ isalphaW(At(url, start)))
            \/ isdigitW(At(url, start))
            \/ At(url, start) \in {PLUS, DASH, DOT}
         THEN 1 ELSE 0
    ELSE IF type = USERPASS
    THEN IF isalphaW(At(url, start)) \/ isdigitW(At(url, start))
            \/ At(url, start) \in {59, QMARK, 38, 61}
            \/ At(url, start) \in {33, STAR, 39, 40, 41, 44}
            \/ At(url, start) \in {36, 95, PLUS, DASH, DOT, SPACE}
         THEN 1
         ELSE IF At(url, start) = PCT
         THEN IF isxdigitW(At(url, start + 1)) /\ isxdigitW(At(url, start + 2))
              THEN 3 ELSE 0
         ELSE 0
    ELSE IF type = PORT
    THEN IF isdigitW(At(url, start)) THEN 1 ELSE 0
    ELSE IF isalnumW(At(url, start)) \/ At(url, start) \in {DASH, DOT, SPACE, STAR}
         THEN 1 ELSE 0

(* the while (cont) loop of a scan: where it ends *)
RECURSIVE ScanLoop(_, _, _)
ScanLoop(url, start, type) ==
    IF ScanUnits(url, start, type) = 0 THEN start
    ELSE ScanLoop(url, start + ScanUnits(url, start, type), type)

(* next: the pointer returned; size: what *size holds; type is one of the     *)
(* four scan types, as in every call of parse_url                             *)
scan_url(url, start, type) ==
    LET Ended(next) ==
            [next |-> next,
             size |-> IF type = SCHEME /\ At(url, next) # COLON THEN 0 ELSE next - start]
    IN  Ended(ScanLoop(url, start, type))

(* the first ch in str at or after from, NoPart when there is none *)
strchrW(str, from, ch) ==
    LET found == {i \in from..(strlenW(str) - 1) : At(str, i) = ch}
    IN  IF found = {} THEN NoPart ELSE CHOOSE i \in found : \A j \in found : i <= j

Rewound_Stay(username) == username

(* "work = pl->username - 1" *)
Rewound(username) == username - 1

(* hr and the struct parsed_url as the call leaves it *)
parse_url(url) ==
    LET Cleared ==
            [scheme |-> 0, scheme_len |-> 0, username |-> NoPart, username_len |-> 0,
             password |-> NoPart, password_len |-> 0, hostname |-> NoPart,
             hostname_len |-> 0, port |-> NoPart, port_len |-> 0,
             query |-> NoPart, query_len |-> 0]
        Query(pl, work) ==
            IF At(url, work) = SLASH /\ strchrW(url, work, QMARK) # NoPart
            THEN [hr |-> S_OK,
                  pl |-> [pl EXCEPT !.query = strchrW(url, work, QMARK),
                                    !.query_len = strlenFrom(url, strchrW(url, work, QMARK))]]
            ELSE [hr |-> S_OK,
                  pl |-> IF At(url, work) = SLASH THEN [pl EXCEPT !.query = NoPart] ELSE pl]
        Port(pl, p) ==
            Query([pl EXCEPT !.port = p.next - p.size, !.port_len = p.size], p.next)
        Host(pl, h) ==
            IF At(url, h.next) = COLON
            THEN Port([pl EXCEPT !.hostname = h.next - h.size, !.hostname_len = h.size],
                      scan_url(url, h.next + 1, PORT))
            ELSE Query([pl EXCEPT !.hostname = h.next - h.size, !.hostname_len = h.size],
                       h.next)
        (* work is the pointer before "work++" *)
        HostAt(pl, work) == Host(pl, scan_url(url, work + 1, HOST))
        Reset(pl) ==
            HostAt([pl EXCEPT !.username_len = 0, !.password_len = 0,
                              !.username = NoPart, !.password = NoPart],
                   Rewound(pl.username))
        Password(pl, p) ==
            IF At(url, p.next) # AT
            THEN Reset([pl EXCEPT !.password = p.next - p.size, !.password_len = p.size])
            ELSE HostAt([pl EXCEPT !.password = p.next - p.size, !.password_len = p.size],
                        p.next)
        User(pl, u) ==
            IF At(url, u.next) = COLON
            THEN Password([pl EXCEPT !.username_len = u.size],
                          scan_url(url, u.next + 1, USERPASS))
            ELSE IF At(url, u.next) = AT
            THEN HostAt([pl EXCEPT !.username_len = u.size, !.password_len = 0,
                                   !.password = NoPart], u.next)
            ELSE IF At(url, u.next) \in {NUL, SLASH, DOT}
            THEN Reset([pl EXCEPT !.username_len = u.size])
            ELSE [hr |-> E_INVALIDARG, pl |-> [pl EXCEPT !.username_len = u.size]]
        Scheme(pl, s) ==
            IF At(url, s.next) = NUL \/ At(url, s.next) # COLON
            THEN [hr |-> E_INVALIDARG, pl |-> [pl EXCEPT !.scheme_len = s.size]]
            ELSE IF At(url, s.next + 1) # SLASH \/ At(url, s.next + 2) # SLASH
            THEN [hr |-> S_OK, pl |-> [pl EXCEPT !.scheme_len = s.size]]
            ELSE User([pl EXCEPT !.scheme_len = s.size, !.username = s.next + 3],
                      scan_url(url, s.next + 3, USERPASS))
    IN  Scheme(Cleared, scan_url(url, 0, SCHEME))

-----------------------------------------------------------------------------
(* Callers of parse_url *)

MaxAuthority == 5

(* a letter, a digit, a unit of user names only, the separators, an escape *)
AuthorityUnits == {97, 49, 95, COLON, AT, SLASH, PCT}

(* ab:// , ab: and Ab:// *)
UrlHeads ==
    { <<97, 98, COLON, SLASH, SLASH>>, <<97, 98, COLON>>, <<65, 98, COLON, SLASH, SLASH>> }

ParsedUrls == { head \o rest : head \in UrlHeads, rest \in Strings(AuthorityUnits, MaxAuthority) }

CallParseUrl ==
    /\ op = "idle"
    /\ \E url \in ParsedUrls :
          /\ arg' = [url |-> url]
          /\ res' = parse_url(url)
    /\ op' = "parse_url"
    /\ prev' = NoCall

NextParse ==
    \/ CallParseUrl
    \/ Return

SpecParse == Init /\ [][NextParse]_vars

-----------------------------------------------------------------------------
(* The tokens after // *)

(* the first unit after scheme:// *)
AfterSlashes == scan_url(arg.url, 0, SCHEME).next + 3

(* T1, the token scanned as a user name, and T2, the one scanned as a password *)
FirstToken == scan_url(arg.url, AfterSlashes, USERPASS)
SecondToken == scan_url(arg.url, FirstToken.next + 1, USERPASS)

(* parse_url on scheme://T1:T2... *)
TwoTokens ==
    /\ op = "parse_url"
    /\ At(arg.url, AfterSlashes - 3) = COLON
    /\ At(arg.url, AfterSlashes - 2) = SLASH
    /\ At(arg.url, AfterSlashes - 1) = SLASH
    /\ At(arg.url, FirstToken.next) = COLON

NoUserInfo ==
    /\ res.pl.username = NoPart
    /\ res.pl.username_len = 0
    /\ res.pl.password = NoPart
    /\ res.pl.password_len = 0

(* T1 is the user name, T2 the password, the host begins after the @ *)
UserInfoCommitted ==
    /\ res.hr = S_OK
    /\ res.pl.username = AfterSlashes
    /\ res.pl.username_len = FirstToken.size
    /\ res.pl.password = FirstToken.next + 1
    /\ res.pl.password_len = SecondToken.size
    /\ res.pl.hostname = SecondToken.next + 1

(* the port is the run of digits after the : that follows T1 *)
PortAfterFirstToken ==
    /\ res.pl.port = FirstToken.next + 1
    /\ res.pl.port_len = scan_url(arg.url, FirstToken.next + 1, PORT).size

-----------------------------------------------------------------------------
(* The scratch buffer of PathAllocCanonicalize *)

MaxScratchBody == 4

(* no root, \, \\, a:, a:\, \\?\a:, \\?\UNC\ *)
ScratchRoots ==
    {<< >>, <<BSLASH>>, <<BSLASH, BSLASH>>, <<97, COLON>>, <<97, COLON, BSLASH>>,
     prefix_disk \o <<97, COLON>>, prefixed_unc}

ScratchInputs ==
    {root \o body : root \in ScratchRoots, body \in Strings({97, DOT, BSLASH}, MaxScratchBody)}
        \X SUBSET PathcchFlags

CallPathAllocCanonicalizeFlagged ==
    /\ op = "idle"
    /\ \E in \in ScratchInputs :
          /\ arg' = [path_in |-> in[1], flags |-> in[2]]
          /\ res' = PathAllocCanonicalize(in[1], in[2])
    /\ op' = "PathAllocCanonicalize"
    /\ prev' = NoCall

NextScratch ==
    \/ CallPathAllocCanonicalizeFlagged
    \/ Return

SpecScratch == Init /\ [][NextScratch]_vars

(* the stores of a call that fall outside the buffer: root at "Copy path root" *)
(* and "Fill in \ in X:\", copy in the scan loop, end at "End the path",      *)
(* extend at the memmove, slash at the trailing \                             *)
ScratchStores(path_in, flags) ==
    LET Slashed(extended) ==
            PATHCCH_ENSURE_TRAILING_SLASH \in flags
                /\ PathCchAddBackslash(extended, Len(extended) * 2).oob
        Moved(ended) ==
            [extend |-> ExtendPath(ended, flags) # ended
                          /\ ~InBuf(ended, strlenW(ended) + 4),
             slash  |-> Slashed(ExtendPath(ended, flags))]
        Scanned(s) ==
            [copy |-> s.oob, end |-> ~InBuf(s.buf, s.dst)] @@ Moved(EndPath(s))
        Rooted(s) ==
            [root |-> get_root_end(path_in) # NoRoot
                        /\ (~InBuf(s.buf, get_root_end(path_in)) \/ ~InBuf(s.buf, 3))]
                @@ Scanned(CanonLoop(path_in, flags, s))
    IN  Rooted(CopyRoot(path_in))

(* the lowest position of dst from the state s of the scan loop to its end *)
RECURSIVE LowestCursor(_, _, _)
LowestCursor(path_in, flags, s) ==
    IF At(path_in, s.src) = NUL THEN s.dst
    ELSE LET Least(rest) == IF rest < s.dst THEN rest ELSE s.dst
         IN  Least(LowestCursor(path_in, flags, CanonStep(path_in, flags, s)))

Canonicalized == op = "PathAllocCanonicalize" /\ res.hr = S_OK

(* C27: in a successful PathAllocCanonicalize on a path of n code units, with *)
(* any valid flag set, no store of the root copy, of the scan loop, of "End   *)
(* the path", of the \\?\ extension and of the trailing backslash falls       *)
(* outside the n + 6 code units allocated, and dst never lies before the      *)
(* start of the buffer.                                                       *)
C27_ScratchBound ==
    Canonicalized =>
        /\ ScratchStores(arg.path_in, EffectiveFlags(arg.flags))
              = [root |-> FALSE, copy |-> FALSE, end |-> FALSE, extend |-> FALSE,
                 slash |-> FALSE]
        /\ LowestCursor(arg.path_in, EffectiveFlags(arg.flags), CopyRoot(arg.path_in)) >= 0

(* a: with the extension and the trailing slash: \\?\a:\ and its NUL fill all *)
(* 8 code units of the buffer                                                 *)
C27_Witness ==
    /\ Canonicalized
    /\ arg.path_in = <<97, COLON>>
    /\ arg.flags = {PATHCCH_ENSURE_IS_EXTENDED_LENGTH_PATH, PATHCCH_ENSURE_TRAILING_SLASH}
    /\ res.path_out = prefix_disk \o <<97, COLON, BSLASH>>
    /\ Len(res.path_out) + 1 = ScratchSize(Len(arg.path_in))

-----------------------------------------------------------------------------
(* UrlUnescapeW in place *)

InPlaceCall ==
    /\ op = "UrlUnescapeW"
    /\ arg.url # NULL
    /\ URL_UNESCAPE_INPLACE \in arg.flags

(* the call on the same string and flags with a buffer of its own, which has  *)
(* room for every unit of url                                                 *)
IntoSeparateBuffer(url, flags) ==
    UrlUnescapeW(url, Rep(90, Len(url)), Len(url), flags \ {URL_UNESCAPE_INPLACE})

(* the units a call has stored, the terminator included *)
StoredUnits(buffer, len) == SubSeq(buffer, 1, len + 1)

(* C28: UrlUnescapeW with URL_UNESCAPE_INPLACE succeeds and leaves in url the *)
(* units, terminator included, that the call without the flag stores into a   *)
(* separate buffer with room; dst is never beyond src at a store, and the     *)
(* result is no longer than the input.                                        *)
C28_InPlaceAsSeparate ==
    InPlaceCall =>
        LET Same(sep) ==
                /\ sep.hr = S_OK
                /\ StoredUnits(res.url, sep.unescaped_len)
                      = StoredUnits(sep.unescaped, sep.unescaped_len)
        IN  /\ res.hr = S_OK
            /\ Same(IntoSeparateBuffer(arg.url, arg.flags))
            /\ ~UnescapeInPlace(arg.url, 0, 0, FALSE, arg.flags, FALSE).passed
            /\ strlenW(res.url) <= strlenW(arg.url)

(* %41?%42 has become A?B within its own buffer *)
C28_Witness ==
    /\ InPlaceCall
    /\ Str(arg.url) = <<PCT, 52, 49, QMARK, PCT, 52, 50>>
    /\ arg.flags = {URL_UNESCAPE_INPLACE}
    /\ Str(res.url) = <<65, QMARK, 66>>

=============================================================================
